---- MODULE Spec2Model ----
\* git-stack: the `stack` orchestrator (src/bin/git-stack/stack.rs) over a small
\* repository: pull the protected bases, prune, re-stack, back up, push, show.
EXTENDS Integers, Sequences, FiniteSets, TLC

\* ------------------------------------------------------------------ bounds
\* number of commits of one script whose cherry-pick may be chosen to conflict
MaxConflicts == 1

\* ------------------------------------------------------------- vocabulary
NoBranch == "-"
NoCommit == 0
Names == {"main", "rel", "a", "b"}
StackModes == {"All", "Current", "Dependents", "Descendants"}

\* gitignore-style patterns of the configuration: `main` and `rel`
ProtectedPatterns == {"main", "rel"}

\* ProtectedBranches::matches(name)
IsProtectedName(n) == n \in ProtectedPatterns

\* total order of branch names (String's Ord), as a rank
NameRank(n) ==
  CASE n = "a" -> 1 [] n = "b" -> 2 [] n = "main" -> 3 [] n = "rel" -> 4 [] OTHER -> 5

\* a sequence holding the elements of a finite set of names, sorted by name
RECURSIVE SortNames(_)
SortNames(S) ==
  IF S = {} THEN <<>>
  ELSE LET m == CHOOSE x \in S : \A y \in S : NameRank(x) <= NameRank(y)
       IN <<m>> \o SortNames(S \ {m})

\* a sequence holding the elements of a finite set of integers, ascending (Oid's Ord)
RECURSIVE SortIds(_)
SortIds(S) ==
  IF S = {} THEN <<>>
  ELSE LET m == CHOOSE x \in S : \A y \in S : x <= y
       IN <<m>> \o SortIds(S \ {m})

\* all orderings of a finite set, as sequences
RECURSIVE Perms(_)
Perms(S) ==
  IF S = {} THEN {<<>>}
  ELSE UNION {{<<x>> \o p : p \in Perms(S \ {x})} : x \in S}

SeqToSet(s) == {s[k] : k \in 1..Len(s)}

RECURSIVE Reverse(_)
Reverse(s) == IF s = <<>> THEN <<>> ELSE Reverse(Tail(s)) \o <<Head(s)>>

\* ---------------------------------------------------------- commit DAG
\* The object database is a sequence of commits, a commit's id is its index.
\*   1 root
\*   2 <- 1      the commit the local `main` starts from
\*   3 <- 2      a commit that exists upstream on `main`
\*   4 <- 2      first commit of a feature
\*   5 <- 4      second commit of a feature (stacked on 4)
\*   6 <- 1      the commit the local `rel` starts from
\*   7 <- 6      a commit that exists upstream on `rel`
\*   8 <- 6      a feature commit on `rel`
\*   9 <- 2      a local, unpushed commit of `main`
\*   10 <- 2     a feature commit with the tree of 3: it has landed upstream as 3
\*   11 <- 10    a feature commit on top of the landed one
InitCommits ==
  << [parent |-> 0, tree |-> 1], [parent |-> 1, tree |-> 2], [parent |-> 2, tree |-> 3],
     [parent |-> 2, tree |-> 4], [parent |-> 4, tree |-> 5], [parent |-> 1, tree |-> 6],
     [parent |-> 6, tree |-> 7], [parent |-> 6, tree |-> 8], [parent |-> 2, tree |-> 9],
     [parent |-> 2, tree |-> 3], [parent |-> 10, tree |-> 0], [parent |-> 0, tree |-> 10] >>

\* Repo::commits_from(tip): the first-parent ancestry of tip, tip first
RECURSIVE CommitsFrom(_, _)
CommitsFrom(cm, tip) ==
  IF tip = NoCommit THEN <<>> ELSE <<tip>> \o CommitsFrom(cm, cm[tip].parent)

\* commits_from(tip).take_while(|c| c.id != stop)
RECURSIVE TakeUntil(_, _)
TakeUntil(s, stop) ==
  IF s = <<>> \/ Head(s) = stop THEN <<>> ELSE <<Head(s)>> \o TakeUntil(Tail(s), stop)

IsAncestor(cm, a, c) == a \in SeqToSet(CommitsFrom(cm, c))

\* Repo::merge_base(a, b): the nearest common ancestor, NoCommit when there is none
MergeBase(cm, a, b) ==
  LET ca == CommitsFrom(cm, a)
      common == {k \in 1..Len(ca) : IsAncestor(cm, ca[k], b)}
  IN IF common = {} THEN NoCommit
     ELSE ca[CHOOSE k \in common : \A j \in common : k <= j]

\* number of commits between c and its ancestor a
Distance(cm, a, c) == Len(TakeUntil(CommitsFrom(cm, c), a))

\* ------------------------------------------------------------ Branches
\* A Branches index is kept as a function name -> commit id.
EmptyBranches == [n \in {} |-> NoCommit]

\* Branches::contains_oid(id)
ContainsOid(bs, id) == \E n \in DOMAIN bs : bs[n] = id

\* Branches::get(id): the names of the branches at id
BranchesAt(bs, id) == {n \in DOMAIN bs : bs[n] = id}

\* Branches::insert / extend
BranchesInsert(bs, name, id) == [n \in DOMAIN bs \cup {name} |-> IF n = name THEN id ELSE bs[n]]
BranchesExtend(bs, other) ==
  [n \in DOMAIN bs \cup DOMAIN other |-> IF n \in DOMAIN other THEN other[n] ELSE bs[n]]

\* Branches::update(repo): every entry is looked up again in the repository
BranchesUpdate(bs, rf) == [n \in DOMAIN bs \cap DOMAIN rf |-> rf[n]]

\* Branches::protected(matcher)
BranchesProtected(bs) == [n \in {m \in DOMAIN bs : IsProtectedName(m)} |-> bs[n]]

\* Branches::all()
BranchesAll(bs) == bs

\* Branches::branch(repo, merge_base, head)
BranchesBranch(cm, bs, mb, hd) ==
  [n \in {m \in DOMAIN bs : IsAncestor(cm, mb, bs[m]) /\ IsAncestor(cm, bs[m], hd)} |-> bs[n]]

\* Branches::dependents(repo, merge_base, head)
BranchesDependents(cm, bs, mb, hd) ==
  [n \in {m \in DOMAIN bs :
            \/ IsAncestor(cm, mb, bs[m]) /\ IsAncestor(cm, bs[m], hd)
            \/ LET b == MergeBase(cm, bs[m], hd)
               IN b # NoCommit /\ b # mb /\ IsAncestor(cm, mb, b)} |-> bs[n]]

\* Branches::descendants(repo, merge_base)
BranchesDescendants(cm, bs, mb) ==
  [n \in {m \in DOMAIN bs : IsAncestor(cm, mb, bs[m])} |-> bs[n]]

Branch(name, id) == [name |-> name, id |-> id]
NoneBranch == Branch(NoBranch, NoCommit)

\* git::find_protected_base: the protected branch whose merge base with oid is
\* nearest to oid (ties: the smaller name); NoneBranch when there is none
FindProtectedBase(cm, prot, oid) ==
  LET cands == {n \in DOMAIN prot : MergeBase(cm, prot[n], oid) # NoCommit}
      d(n) == Distance(cm, MergeBase(cm, prot[n], oid), oid)
  IN IF cands = {} THEN NoneBranch
     ELSE LET best == CHOOSE n \in cands :
                        \A m \in cands : d(n) < d(m) \/ (d(n) = d(m) /\ NameRank(n) <= NameRank(m))
          IN Branch(best, prot[best])

\* resolve_explicit_base
ResolveExplicitBase(rf, name) ==
  IF name \in DOMAIN rf THEN Branch(name, rf[name]) ELSE NoneBranch

\* resolve_implicit_base
ResolveImplicitBase(cm, oid, prot) == FindProtectedBase(cm, prot, oid)


\* ------------------------------------------------------------ graph::Node
\* A graph is kept as its root, its set of nodes (commit ids; a child's edge
\* goes to its first parent, as populate builds it), and per node the branches
\* (in Vec order), the action and the pushable flag.
Actions == {"Pick", "Protected", "Delete", "Fixup"}
NoGraph == [ok |-> FALSE]

\* Node::new(commit, possible_branches): takes the branches at the commit
NodeNew(c, bs, action) ==
  [ok |-> TRUE, root |-> c, nodes |-> {c},
   branches |-> [n \in {c} |-> SortNames(BranchesAt(bs, c))],
   action |-> [n \in {c} |-> action],
   pushable |-> [n \in {c} |-> FALSE]]

\* Branches::remove(id)
BranchesRemove(bs, id) == [n \in {m \in DOMAIN bs : bs[m] # id} |-> bs[n]]

GraphChildren(cm, g, n) == {c \in g.nodes : cm[c].parent = n}

RECURSIVE GraphDescendants(_, _, _)
GraphDescendants(cm, g, n) ==
  {n} \cup UNION {GraphDescendants(cm, g, c) : c \in GraphChildren(cm, g, n)}

\* Node::merge(self, other): the union, the node of self kept where both have one
GraphMerge(g, o) ==
  [ok |-> TRUE, root |-> g.root, nodes |-> g.nodes \cup o.nodes,
   branches |-> [n \in g.nodes \cup o.nodes |->
                   IF n \in g.nodes /\ n \in o.nodes THEN g.branches[n] \o o.branches[n]
                   ELSE IF n \in g.nodes THEN g.branches[n] ELSE o.branches[n]],
   action |-> [n \in g.nodes \cup o.nodes |->
                   IF n \in g.nodes THEN g.action[n] ELSE o.action[n]],
   pushable |-> [n \in g.nodes \cup o.nodes |->
                   IF n \in g.nodes THEN g.pushable[n] ELSE o.pushable[n]]]

\* Node::populate(repo, base, head, branches, default_action): the chain
\* base..head of first parents; fails unless merge_base(base, head) = base
Populate(cm, base, head, bs, action) ==
  IF MergeBase(cm, base, head) # base THEN [g |-> NoGraph, bs |-> bs]
  ELSE LET chain == SeqToSet(TakeUntil(CommitsFrom(cm, head), base)) \cup {base}
       IN [g |-> [ok |-> TRUE, root |-> base, nodes |-> chain,
                  branches |-> [n \in chain |-> SortNames(BranchesAt(bs, n))],
                  action |-> [n \in chain |-> action],
                  pushable |-> [n \in chain |-> FALSE]],
           bs |-> [n \in {m \in DOMAIN bs : bs[m] \notin chain} |-> bs[n]]]

\* `prefix.extend(repo, node)` for a prefix that populate built down from the
\* commit of node: find_commit_mut finds that commit (the leaf of the prefix)
\* and the node is merged there
SpliceUnder(prefix, g) == GraphMerge(prefix, g)

\* Node::extend(self, other)
GraphExtend(cm, g, o) ==
  IF o.root \in g.nodes THEN GraphMerge(g, o)
  ELSE LET mb == MergeBase(cm, g.root, o.root)
       IN IF mb = NoCommit THEN NoGraph
          ELSE LET g1 == IF mb # g.root
                         THEN SpliceUnder(Populate(cm, mb, g.root, EmptyBranches, g.action[g.root]).g, g)
                         ELSE g
                   o1 == IF mb # o.root
                         THEN SpliceUnder(Populate(cm, mb, o.root, EmptyBranches, o.action[o.root]).g, o)
                         ELSE o
               IN GraphMerge(g1, o1)

\* Node::insert_commit(self, repo, local_commit, possible_branches)
InsertCommit(cm, g, c, bs) ==
  LET mb == MergeBase(cm, g.root, c)
  IN IF mb = NoCommit THEN [g |-> NoGraph, bs |-> bs]
     ELSE LET pre == Populate(cm, mb, g.root, bs, g.action[g.root])
              g1  == IF mb # g.root THEN SpliceUnder(pre.g, g) ELSE g
              bs1 == IF mb # g.root THEN pre.bs ELSE bs
              oth == Populate(cm, g1.root, c, bs1, "Pick")
          IN [g |-> GraphMerge(g1, oth.g), bs |-> oth.bs]

\* the commit ids of a Branches index, sorted by the name of the first branch at each
BranchIdsByName(bs) ==
  LET first(id) == SortNames(BranchesAt(bs, id))[1]
      ids == {bs[n] : n \in DOMAIN bs}
      names == SortNames({first(id) : id \in ids})
  IN [k \in 1..Len(names) |-> bs[names[k]]]

\* Node::extend_branches(self, repo, branches)
RECURSIVE InsertAll(_, _, _, _)
InsertAll(cm, g, ids, bs) ==
  IF ids = <<>> \/ ~g.ok THEN g
  ELSE LET r == InsertCommit(cm, g, Head(ids), bs)
       IN InsertAll(cm, r.g, Tail(ids), r.bs)

ExtendBranches(cm, g, bs) == InsertAll(cm, g, BranchIdsByName(bs), bs)

\* Node::new(head_commit, &mut graphed_branches) followed by root.extend(repo, graphed_branches)
GraphOf(cm, headId, bs) ==
  ExtendBranches(cm, NodeNew(headId, bs, "Pick"), BranchesRemove(bs, headId))


\* the parent of a node in the graph (NoCommit for the root)
GraphParent(cm, g, n) == IF n = g.root THEN NoCommit ELSE cm[n].parent

\* ------------------------------------------------------- graph annotators
\* graph::protect_branches(root, repo, protected_branches): a node carrying a
\* protected branch is Protected, and so is every ancestor of a Protected node
ProtectBranches(cm, g, prot) ==
  LET marked == {n \in g.nodes : \E k \in 1..Len(g.branches[n]) : g.branches[n][k] \in DOMAIN prot}
  IN [g EXCEPT !.action =
        [n \in g.nodes |-> IF GraphDescendants(cm, g, n) \cap marked # {} THEN "Protected"
                           ELSE g.action[n]]]

\* graph::rebase_branches(root, onto): the onto node is Protected, every other
\* node that is not Protected stays Pick and is re-stacked onto it
RebaseBranches(g, onto) ==
  IF onto \notin g.nodes THEN NoGraph
  ELSE [g EXCEPT !.action = [n \in g.nodes |-> IF n = onto THEN "Protected" ELSE g.action[n]]]

\* graph::drop_by_tree_id(root, commits): a node that is not Protected and whose
\* tree is the tree of one of the commits is Delete
DropByTreeId(cm, g, ontoCommits) ==
  LET trees == {cm[ontoCommits[k]].tree : k \in 1..Len(ontoCommits)}
  IN [g EXCEPT !.action =
        [n \in g.nodes |-> IF g.action[n] # "Protected" /\ cm[n].tree \in trees THEN "Delete"
                           ELSE g.action[n]]]

\* graph::delinearize(root): every commit keeps a node of its own, chains are
\* not flattened
Delinearize(g) == g

\* graph::pushable(root)
RECURSIVE PicksUpToProtected(_, _, _)
PicksUpToProtected(cm, g, n) ==
  IF n = NoCommit THEN TRUE
  ELSE IF g.action[n] = "Protected" THEN TRUE
  ELSE g.action[n] = "Pick" /\ PicksUpToProtected(cm, g, GraphParent(cm, g, n))

Pushable(cm, g) ==
  [g EXCEPT !.pushable =
     [n \in g.nodes |-> /\ g.branches[n] # <<>>
                        /\ g.action[n] = "Pick"
                        /\ cm[n].parent # NoCommit
                        /\ PicksUpToProtected(cm, g, GraphParent(cm, g, n))]]

\* ---------------------------------------------------------------- Script
Cmd(op, name, id) == [op |-> op, name |-> name, id |-> id]

RECURSIVE CreateAll(_, _)
CreateAll(names, id) ==
  IF names = <<>> THEN <<>> ELSE <<Cmd("CreateBranch", Head(names), id)>> \o CreateAll(Tail(names), id)

RECURSIVE DeleteAll(_)
DeleteAll(names) ==
  IF names = <<>> THEN <<>> ELSE <<Cmd("DeleteBranch", Head(names), NoCommit)>> \o DeleteAll(Tail(names))

\* the nearest ancestor-or-self of n that is kept (not Delete)
RECURSIVE KeptTarget(_, _, _, _)
KeptTarget(cm, g, n, onto) ==
  IF n = NoCommit \/ g.action[n] = "Protected" THEN onto
  ELSE IF g.action[n] = "Delete" THEN KeptTarget(cm, g, GraphParent(cm, g, n), onto)
  ELSE n

\* a branch sits on the node or below it
HasBranchBelow(cm, g, n) == \E d \in GraphDescendants(cm, g, n) : g.branches[d] # <<>>

\* the children of a node that have a branch on them or below them: a commit
\* that no branch needs gets no command
BranchedChildren(cm, g, n) == {c \in GraphChildren(cm, g, n) : HasBranchBelow(cm, g, c)}

\* a node the script leaves alone and only walks through: a Protected node, or
\* a node that has onto below it
IsAnchor(cm, g, n, onto) == g.action[n] = "Protected" \/ onto \in GraphDescendants(cm, g, n)

\* the commands of the subtree of a node that is re-stacked; `rewrite` tells
\* whether its parent changes, `first` whether the executor's tip is already
\* the parent's new tip
RECURSIVE ScriptOfNode(_, _, _, _, _, _)
RECURSIVE ScriptOfChildren(_, _, _, _, _, _)
ScriptOfNode(cm, g, n, onto, rewrite, first) ==
  LET del  == g.action[n] = "Delete"
      here == IF del THEN DeleteAll(g.branches[n])
              ELSE IF rewrite
              THEN (IF first THEN <<>>
                    ELSE <<Cmd("SwitchCommit", NoBranch,
                               KeptTarget(cm, g, GraphParent(cm, g, n), onto))>>)
                   \o <<Cmd("CherryPick", NoBranch, n)>> \o CreateAll(g.branches[n], n)
              ELSE <<>>
  IN here \o ScriptOfChildren(cm, g, SortIds(BranchedChildren(cm, g, n)), onto,
                              rewrite \/ del, rewrite /\ ~del)

ScriptOfChildren(cm, g, kids, onto, rewrite, first) ==
  IF kids = <<>> THEN <<>>
  ELSE ScriptOfNode(cm, g, Head(kids), onto, rewrite, first)
       \o ScriptOfChildren(cm, g, Tail(kids), onto, rewrite, FALSE)

\* the stacks hanging below the Protected node p, each re-stacked onto `onto`
RECURSIVE ScriptOfProtected(_, _, _, _)
RECURSIVE ScriptOfProtectedKids(_, _, _, _, _)
ScriptOfProtected(cm, g, p, onto) ==
  ScriptOfProtectedKids(cm, g, p, SortIds(BranchedChildren(cm, g, p)), onto)

ScriptOfProtectedKids(cm, g, p, kids, onto) ==
  IF kids = <<>> THEN <<>>
  ELSE (IF IsAnchor(cm, g, Head(kids), onto) THEN ScriptOfProtected(cm, g, Head(kids), onto)
        ELSE ScriptOfNode(cm, g, Head(kids), onto, p # onto, FALSE))
       \o ScriptOfProtectedKids(cm, g, p, Tail(kids), onto)

\* graph::to_script(root): empty when every branch already sits on `onto`
ToScript(cm, g, onto) ==
  IF IsAnchor(cm, g, g.root, onto) THEN ScriptOfProtected(cm, g, g.root, onto)
  ELSE ScriptOfNode(cm, g, g.root, onto, FALSE, FALSE)


\* ------------------------------------------------------------- events
\* What the run logs or does, in order. `real` tells a side effect that was
\* performed from a line that was only logged (dry run, warnings, errors).
Ev(phase, op, name, real) == [phase |-> phase, op |-> op, name |-> name, real |-> real]

\* HEAD: the branch it is attached to (NoBranch when detached) and its commit
Head_(branch, id) == [branch |-> branch, id |-> id]

\* Repo::branch(name, id): create the branch or move it
RepoBranch(rf, name, id) == BranchesInsert(rf, name, id)

\* Repo::delete_branch(name)
RepoDeleteBranch(rf, name) == [n \in DOMAIN rf \ {name} |-> rf[n]]

\* ------------------------------------------------------------ Executor
\* Executor::new(repo, dry_run)
ExecutorNew(dry) == [dry_run |-> dry, dirty |-> FALSE, detached |-> FALSE]

\* the executor's walk over one script: x carries the repository (cm, rf, hd),
\* the executor (ex), the in-memory tip, the new id of every commit picked
\* (marks), the commits that failed or were skipped, the failures and the events
ExecStep(x, cmd, conflicts) ==
  CASE cmd.op = "SwitchCommit" ->
         [x EXCEPT !.broken = cmd.id \in x.skipped,
                   !.tip = IF cmd.id \in DOMAIN x.marks THEN x.marks[cmd.id] ELSE cmd.id]
    [] cmd.op = "CherryPick" ->
         IF x.broken THEN [x EXCEPT !.skipped = @ \cup {cmd.id}]
         ELSE IF ~x.ex.dry_run /\ cmd.id \in conflicts
         THEN [x EXCEPT !.broken = TRUE, !.skipped = @ \cup {cmd.id},
                        !.failures = Append(@, [name |-> NoBranch, dependents |-> <<>>]),
                        !.log = Append(@, Ev("rebase", "conflict", NoBranch, FALSE))]
         ELSE IF x.ex.dry_run
         THEN [x EXCEPT !.tip = cmd.id,
                        !.marks = [c \in DOMAIN x.marks \cup {cmd.id} |->
                                     IF c = cmd.id THEN cmd.id ELSE x.marks[c]],
                        !.log = Append(@, Ev("rebase", "cherry-pick", NoBranch, FALSE))]
         ELSE LET new == Len(x.cm) + 1
              IN [x EXCEPT !.cm = Append(@, [parent |-> x.tip,
                                             tree |-> 10 * x.cm[x.tip].tree + x.cm[cmd.id].tree]),
                           !.tip = new,
                           !.marks = [c \in DOMAIN x.marks \cup {cmd.id} |->
                                        IF c = cmd.id THEN new ELSE x.marks[c]],
                           !.log = Append(@, Ev("rebase", "cherry-pick", NoBranch, TRUE))]
    [] cmd.op \in {"CreateBranch", "DeleteBranch"} ->
         IF x.broken
         THEN LET k == Len(x.failures)
              IN IF x.failures[k].name = NoBranch
                 THEN [x EXCEPT !.failures[k].name = cmd.name]
                 ELSE [x EXCEPT !.failures[k].dependents = Append(@, cmd.name)]
         ELSE IF x.ex.dry_run
         THEN [x EXCEPT !.log = Append(@, Ev("rebase", cmd.op, cmd.name, FALSE))]
         ELSE LET detach == ~x.ex.detached /\ x.hd.branch # NoBranch
              IN [x EXCEPT !.hd = IF detach THEN Head_(NoBranch, x.hd.id) ELSE @,
                           !.ex = [@ EXCEPT !.dirty = TRUE, !.detached = @ \/ detach],
                           !.rf = IF cmd.op = "CreateBranch" THEN RepoBranch(@, cmd.name, x.tip)
                                  ELSE RepoDeleteBranch(@, cmd.name),
                           !.log = @ \o (IF detach THEN <<Ev("rebase", "detach", NoBranch, TRUE)>>
                                         ELSE <<>>)
                                     \o <<Ev("rebase", cmd.op, cmd.name, TRUE)>>]
    [] OTHER -> x

RECURSIVE ExecAll(_, _, _)
ExecAll(x, script, conflicts) ==
  IF script = <<>> THEN x ELSE ExecAll(ExecStep(x, Head(script), conflicts), Tail(script), conflicts)

\* Executor::run_script(repo, script): the repository, the executor, the
\* failures (name, dependents) and the events after the script
RunScriptOp(cm, rf, hd, ex, script, conflicts) ==
  ExecAll([cm |-> cm, rf |-> rf, hd |-> hd, ex |-> ex, tip |-> hd.id,
           marks |-> [c \in {} |-> NoCommit], skipped |-> {}, broken |-> FALSE,
           failures |-> <<>>, log |-> <<>>],
          script, conflicts)

\* Executor::is_dirty()
ExecutorIsDirty(ex) == ex.dirty

\* Executor::close(repo, head_name): back to the branch HEAD was on
ExecutorClose(rf, hd, ex, headName) ==
  IF ex.dry_run \/ ~ex.detached
  THEN [ok |-> TRUE, hd |-> hd, log |-> <<Ev("rebase", "switch", headName, FALSE)>>]
  ELSE IF headName \notin DOMAIN rf
  THEN [ok |-> FALSE, hd |-> hd, log |-> <<>>]
  ELSE [ok |-> TRUE, hd |-> Head_(headName, rf[headName]),
        log |-> <<Ev("rebase", "switch", headName, TRUE)>>]


\* -------------------------------------------------------------- git_pull
\* what the fetch, the in-memory rebase and the update of the branch run into
PullOutcomes == {"ok", "fetch_failed", "not_tracked", "conflict",
                 "detach_failed", "branch_failed", "switch_failed"}

\* the errors of git_pull that come from the fetch or from the in-memory rebase
PullFailures == {"fetch-failed", "no-local-branch", "no-remote-branch", "no-common-base",
                 "conflict"}

\* the errors of git_pull, as `stack` warns about them
PullWarnings == PullFailures \cup {"update-failed"}

\* the in-memory rebase of git_pull: every commit of ops is committed again on the tip
RECURSIVE RebaseOnto(_, _, _)
RebaseOnto(cm, tip, ops) ==
  IF ops = <<>> THEN [cm |-> cm, tip |-> tip]
  ELSE RebaseOnto(Append(cm, [parent |-> tip, tree |-> 10 * cm[tip].tree + cm[Head(ops)].tree]),
                  Len(cm) + 1, Tail(ops))

\* an Err of git_pull that leaves HEAD detached
PullErrMut(cm, rf, hd, trk, log) ==
  [ok |-> FALSE, why |-> "", range |-> <<NoCommit, NoCommit>>, cm |-> cm, rf |-> rf,
   hd |-> Head_(NoBranch, hd.id), trk |-> trk, log |-> log]

\* an Err of git_pull out of the fetch or the rebase: the repository is as it was
PullErr(cm, rf, hd, trk, log) ==
  [ok |-> FALSE, why |-> "", range |-> <<NoCommit, NoCommit>>, cm |-> cm, rf |-> rf, hd |-> hd,
   trk |-> trk, log |-> log]

\* the same, with the message of the error
PullErrOf(why, cm, rf, hd, trk, log) == [PullErr(cm, rf, hd, trk, log) EXCEPT !.why = why]

\* git_pull without the early return of the dry run: the fetch is run
GitPullDryRunMut(cm, rf, hd, trk, name) ==
  [ok |-> TRUE, range |-> <<rf[name], rf[name]>>, cm |-> cm, rf |-> rf, hd |-> hd,
   trk |-> trk, log |-> <<Ev("pull", "git pull --rebase", name, FALSE),
                          Ev("pull", "fetch", name, TRUE)>>]

\* the dry-run arm of git_pull
GitPullDryRun(cm, rf, hd, trk, name) ==
  [ok |-> TRUE, range |-> <<rf[name], rf[name]>>, cm |-> cm, rf |-> rf, hd |-> hd,
   trk |-> trk, log |-> <<Ev("pull", "git pull --rebase", name, FALSE)>>]

\* the update without the detach and the switch: the branch is reset under HEAD
GitPullUpdateRefMut(rf, hd, name, tip, out) ==
  IF out \in {"detach_failed", "branch_failed", "switch_failed"}
  THEN [ok |-> FALSE, rf |-> rf, hd |-> hd, log |-> <<>>]
  ELSE [ok |-> TRUE, rf |-> RepoBranch(rf, name, tip), hd |-> hd,
        log |-> <<Ev("pull", "branch", name, TRUE)>>]

\* the update of the pulled branch at the end of git_pull
GitPullUpdateRef(rf, hd, name, tip, out) ==
  IF hd.branch = name
  THEN CASE out = "detach_failed" -> [ok |-> FALSE, rf |-> rf, hd |-> hd, log |-> <<>>]
         [] out = "branch_failed" ->
              [ok |-> FALSE, rf |-> rf, hd |-> Head_(NoBranch, hd.id),
               log |-> <<Ev("pull", "detach", NoBranch, TRUE)>>]
         [] out = "switch_failed" ->
              [ok |-> FALSE, rf |-> RepoBranch(rf, name, tip), hd |-> Head_(NoBranch, hd.id),
               log |-> <<Ev("pull", "detach", NoBranch, TRUE), Ev("pull", "branch", name, TRUE)>>]
         [] OTHER ->
              [ok |-> TRUE, rf |-> RepoBranch(rf, name, tip), hd |-> Head_(name, tip),
               log |-> <<Ev("pull", "detach", NoBranch, TRUE), Ev("pull", "branch", name, TRUE),
                         Ev("pull", "switch", name, TRUE)>>]
  ELSE IF out = "branch_failed" THEN [ok |-> FALSE, rf |-> rf, hd |-> hd, log |-> <<>>]
  ELSE [ok |-> TRUE, rf |-> RepoBranch(rf, name, tip), hd |-> hd,
        log |-> <<Ev("pull", "branch", name, TRUE)>>]

\* a range that ends at the commit the branch is set to
PulledRangeMut(start_id, end_id, tip_id) == <<start_id, tip_id>>

\* `pulled_range = (start_id, end_id)`: from the merge base to the remote tip
PulledRange(start_id, end_id, tip_id) == <<start_id, end_id>>

\* an up-to-date arm that reports the last local commit as pulled
GitPullUpToDateMut(cm, rf, hd, trk, local, log) ==
  [ok |-> TRUE, range |-> <<cm[local].parent, local>>, cm |-> cm, rf |-> rf, hd |-> hd,
   trk |-> trk, log |-> log]

\* the up-to-date arm of git_pull: `return Ok((local, local))`
GitPullUpToDate(cm, rf, hd, trk, local, log) ==
  [ok |-> TRUE, range |-> <<local, local>>, cm |-> cm, rf |-> rf, hd |-> hd,
   trk |-> trk, log |-> log]

\* git_pull(repo, branch_name, dry_run); `out` is what the fetch and the
\* in-memory rebase run into
GitPull(cm, rf, hd, rem, trk, name, dry, out) ==
  IF dry THEN GitPullDryRun(cm, rf, hd, trk, name)
  ELSE
  LET said    == <<Ev("pull", "git pull --rebase", name, FALSE), Ev("pull", "fetch", name, TRUE)>>
      fetched == out # "fetch_failed" /\ rem[name] # NoCommit
      trk1    == IF fetched /\ out # "not_tracked" THEN [trk EXCEPT ![name] = rem[name]] ELSE trk
  IN IF ~fetched THEN PullErrOf("fetch-failed", cm, rf, hd, trk, said)
     ELSE IF name \notin DOMAIN rf THEN PullErrOf("no-local-branch", cm, rf, hd, trk1, said)
     ELSE IF trk1[name] = NoCommit THEN PullErrOf("no-remote-branch", cm, rf, hd, trk1, said)
     ELSE
     LET local  == rf[name]
         end_id == trk1[name]
         base   == MergeBase(cm, local, end_id)
     IN IF base = NoCommit THEN PullErrOf("no-common-base", cm, rf, hd, trk1, said)
        ELSE IF base = end_id
        THEN GitPullUpToDate(cm, rf, hd, trk1, local, said)
        ELSE
        LET ops == Reverse(TakeUntil(CommitsFrom(cm, local), base))
        IN IF ops # <<>> /\ out = "conflict" THEN PullErrOf("conflict", cm, rf, hd, trk1, said)
           ELSE LET rb == RebaseOnto(cm, end_id, ops)
                    up == GitPullUpdateRef(rf, hd, name, rb.tip, out)
                IN [ok |-> up.ok, why |-> "update-failed",
                    range |-> PulledRange(base, end_id, rb.tip),
                    cm |-> rb.cm, rf |-> up.rf, hd |-> up.hd, trk |-> trk1,
                    log |-> said \o up.log]

\* --------------------------------------------------------- drop_branches
\* one call of drop_branches on the repository (`switch` or `delete`); x carries
\* the repository, the events, whether drop_branches is still running (ok) and
\* the number of calls made so far (n); the call numbered fail_at fails, and
\* drop_branches returns its error
DropOp(x, op, name, dry, fail_at) ==
  IF ~x.ok THEN x
  ELSE IF dry THEN [x EXCEPT !.log = Append(@, Ev("pull", op, name, FALSE))]
  ELSE IF x.n + 1 = fail_at
  THEN [x EXCEPT !.ok = FALSE, !.n = @ + 1, !.log = Append(@, Ev("pull", op, name, FALSE))]
  ELSE [x EXCEPT !.n = @ + 1,
                 !.rf = IF op = "delete" THEN RepoDeleteBranch(@, name) ELSE @,
                 !.hd = IF op = "switch" THEN Head_(name, x.rf[name]) ELSE @,
                 !.log = Append(@, Ev("pull", op, name, TRUE))]

\* the branch HEAD is on is deleted first, and HEAD is switched afterwards
DropOneMut(x, b, potential_head, head_branch_name, dry, fail_at) ==
  IF b = potential_head THEN x
  ELSE IF head_branch_name = b
  THEN DropOp(DropOp(x, "delete", b, dry, fail_at), "switch", potential_head, dry, fail_at)
  ELSE DropOp(x, "delete", b, dry, fail_at)

\* the body of `for branch in commit_unprotected`
DropOne(x, b, potential_head, head_branch_name, dry, fail_at) ==
  IF b = potential_head THEN x
  ELSE IF head_branch_name = b
  THEN DropOp(DropOp(x, "switch", potential_head, dry, fail_at), "delete", b, dry, fail_at)
  ELSE DropOp(x, "delete", b, dry, fail_at)

\* the inner loop of drop_branches over the unprotected branches of one commit
RECURSIVE DropNames(_, _, _, _, _, _)
DropNames(x, names, potential_head, head_branch_name, dry, fail_at) ==
  IF names = <<>> THEN x
  ELSE DropNames(DropOne(x, Head(names), potential_head, head_branch_name, dry, fail_at),
                 Tail(names), potential_head, head_branch_name, dry, fail_at)

\* commit_unprotected: the branches at a commit that are not protected branches
CommitUnprotected(branches, prot, id) == BranchesAt(branches, id) \ BranchesAt(prot, id)

RECURSIVE DropCommits(_, _, _, _, _, _, _, _)
DropCommits(x, ids, potential_head, head_branch_name, branches, prot, dry, fail_at) ==
  IF ids = <<>> THEN x
  ELSE DropCommits(DropNames(x, SortNames(CommitUnprotected(branches, prot, Head(ids))),
                             potential_head, head_branch_name, dry, fail_at),
                   Tail(ids), potential_head, head_branch_name, branches, prot, dry, fail_at)

\* drop_branches(repo, commit_ids, potential_head, branches, protected_branches, dry_run)
DropBranches(rf, hd, ids, potential_head, branches, prot, dry, fail_at) ==
  DropCommits([rf |-> rf, hd |-> hd, log |-> <<>>, ok |-> TRUE, n |-> 0], ids, potential_head,
              hd.branch, branches, prot, dry, fail_at)

\* ------------------------------------------------------ git_push_internal
\* the pushes of the branches of one node, in order
\* a loop over node.branches that pushes whatever the pushable flag says
PushNamesMut(names, pushable, dry, failing) ==
  [log |-> [k \in 1..Len(names) |-> Ev("push", "push", names[k], ~dry)],
   failed |-> SelectSeq(names, LAMBDA b : ~dry /\ b \in failing)]

RECURSIVE PushNames(_, _, _, _)
PushNames(names, pushable, dry, failing) ==
  IF names = <<>> THEN [log |-> <<>>, failed |-> <<>>]
  ELSE LET rest == PushNames(Tail(names), pushable, dry, failing)
           b == Head(names)
       IN IF pushable
          THEN [log |-> <<Ev("push", "push", b, ~dry)>> \o rest.log,
                failed |-> (IF ~dry /\ b \in failing THEN <<b>> ELSE <<>>) \o rest.failed]
          ELSE [log |-> <<Ev("push", "skip", b, FALSE)>> \o rest.log, failed |-> rest.failed]

\* git_push_internal(repo, node, dry_run): the children of a node are walked
\* only when no push of the node failed
RECURSIVE GitPushInternal(_, _, _, _, _)
RECURSIVE GitPushKids(_, _, _, _, _)
\* a walk that goes on into the children of a node whose push failed
GitPushInternalMut(cm, g, n, dry, failing) ==
  LET here == PushNames(g.branches[n], g.pushable[n], dry, failing)
      kids == GitPushKids(cm, g, SortIds(GraphChildren(cm, g, n)), dry, failing)
  IN [log |-> here.log \o kids.log, failed |-> here.failed \o kids.failed]

GitPushInternal(cm, g, n, dry, failing) ==
  LET here == PushNames(g.branches[n], g.pushable[n], dry, failing)
  IN IF here.failed = <<>>
     THEN LET kids == GitPushKids(cm, g, SortIds(GraphChildren(cm, g, n)), dry, failing)
          IN [log |-> here.log \o kids.log, failed |-> kids.failed]
     ELSE here

GitPushKids(cm, g, kids, dry, failing) ==
  IF kids = <<>> THEN [log |-> <<>>, failed |-> <<>>]
  ELSE LET a == GitPushInternal(cm, g, Head(kids), dry, failing)
           b == GitPushKids(cm, g, Tail(kids), dry, failing)
       IN [log |-> a.log \o b.log, failed |-> a.failed \o b.failed]

\* git_push(repo, node, dry_run): the error names every branch that failed
GitPush(cm, g, dry, failing) ==
  LET r == GitPushInternal(cm, g, g.root, dry, failing)
  IN [ok |-> r.failed = <<>>, failed |-> r.failed,
      log |-> r.log \o [k \in 1..Len(r.failed) |-> Ev("push", "error", r.failed[k], FALSE)]]


\* ------------------------------------------------------------ State::new
\* the --base, --onto and --stack a run is started with
ArgChoices ==
  { <<NoBranch, NoBranch, "All">>, <<NoBranch, NoBranch, "Current">>,
    <<NoBranch, NoBranch, "Dependents">>, <<NoBranch, NoBranch, "Descendants">>,
    <<"a", NoBranch, "All">>, <<NoBranch, "main", "All">>, <<"a", "main", "Current">>,
    <<"a", "main", "Dependents">>, <<"main", "main", "All">> }

StackState(base, onto, branches) == [base |-> base, onto |-> onto, branches |-> branches]

\* one stack per implicit base, each holding every branch
StacksOfAllMut(cm, branches, prot) ==
  LET bases == {ResolveImplicitBase(cm, branches[n], prot) : n \in DOMAIN branches}
  IN IF NoneBranch \in bases THEN {[exit |-> "usage", stacks |-> <<>>]}
     ELSE {[exit |-> "running",
            stacks |-> [k \in 1..Len(p) |-> StackState(p[k], p[k], branches)]]
           : p \in Perms(bases)}

\* the (None, None, All) arm of State::new: one stack per implicit base; the
\* stacks come out of a HashMap, in any order
StacksOfAll(cm, branches, prot) ==
  LET baseOf(n) == ResolveImplicitBase(cm, branches[n], prot)
      bases == {baseOf(n) : n \in DOMAIN branches}
  IN IF NoneBranch \in bases THEN {[exit |-> "usage", stacks |-> <<>>]}
     ELSE {[exit |-> "running",
            stacks |-> [k \in 1..Len(p) |->
                          StackState(p[k], p[k],
                                     [n \in {m \in DOMAIN branches : baseOf(m) = p[k]} |-> branches[n]])]]
           : p \in Perms(bases)}

\* the last arm of State::new
StacksOfHead(cm, branches, prot, headId, base0, onto0, mode) ==
  LET base == IF base0 # NoneBranch THEN base0 ELSE ResolveImplicitBase(cm, headId, prot)
      onto == IF onto0 # NoneBranch THEN onto0 ELSE base
      mb   == MergeBase(cm, base.id, headId)
  IN IF base = NoneBranch \/ mb = NoCommit THEN {[exit |-> "usage", stacks |-> <<>>]}
     ELSE IF mode = "All" THEN {[exit |-> "panic", stacks |-> <<>>]}
     ELSE {[exit |-> "running",
            stacks |-> <<StackState(base, onto,
                           CASE mode = "Current" -> BranchesBranch(cm, branches, mb, headId)
                             [] mode = "Dependents" -> BranchesDependents(cm, branches, mb, headId)
                             [] OTHER -> BranchesDescendants(cm, branches, mb))>>]}

\* State::new(repo, args): the stacks, or the exit code it fails with
StateNewResults(cm, rf, hd, a) ==
  LET branches == rf
      prot == BranchesProtected(branches)
      base == IF a.base = NoBranch THEN NoneBranch ELSE ResolveExplicitBase(rf, a.base)
      onto == IF a.onto = NoBranch THEN NoneBranch ELSE ResolveExplicitBase(rf, a.onto)
  IN IF (a.base # NoBranch /\ base = NoneBranch) \/ (a.onto # NoBranch /\ onto = NoneBranch)
     THEN {[exit |-> "usage", stacks |-> <<>>]}
     ELSE IF base # NoneBranch /\ onto = NoneBranch /\ a.stack = "All"
     THEN {[exit |-> "running", stacks |-> <<StackState(base, base, BranchesAll(branches))>>]}
     ELSE IF base = NoneBranch /\ onto # NoneBranch /\ a.stack = "All"
     THEN {[exit |-> "running", stacks |-> <<StackState(onto, onto, BranchesAll(branches))>>]}
     ELSE IF base = NoneBranch /\ onto = NoneBranch /\ a.stack = "All"
     THEN StacksOfAll(cm, branches, prot)
     ELSE StacksOfHead(cm, branches, prot, hd.id, base, onto, a.stack)

\* a rebase flag that is the --rebase argument alone
RebaseFlagMut(a) == a.rebase

\* `--pull` implies `--rebase`
RebaseFlag(a) == a.rebase \/ a.pull

EmptyState ==
  [branches |-> EmptyBranches, protected_branches |-> EmptyBranches, head_commit |-> NoCommit,
   stacks |-> <<>>, rebase |-> FALSE, pull |-> FALSE, push |-> FALSE, dry_run |-> FALSE]

\* StackState::update(repo)
StackUpdate(stack, rf) ==
  IF stack.base.name \notin DOMAIN rf \/ stack.onto.name \notin DOMAIN rf
  THEN [ok |-> FALSE, stack |-> stack]
  ELSE [ok |-> TRUE,
        stack |-> StackState(Branch(stack.base.name, rf[stack.base.name]),
                             Branch(stack.onto.name, rf[stack.onto.name]),
                             BranchesUpdate(stack.branches, rf))]

\* State::update()
StateUpdate(st, rf, hd) ==
  [ok |-> \A k \in 1..Len(st.stacks) : StackUpdate(st.stacks[k], rf).ok,
   st |-> [st EXCEPT !.head_commit = hd.id,
                     !.branches = BranchesUpdate(@, rf),
                     !.protected_branches = BranchesUpdate(@, rf),
                     !.stacks = [k \in 1..Len(st.stacks) |-> StackUpdate(st.stacks[k], rf).stack]]]

\* the branches graphed for one stack: its branches, and its base and its onto
\* when no branch of the index is at their commit
WithBaseAndOnto(bs, stack) ==
  LET b1 == IF ContainsOid(bs, stack.base.id) THEN bs
            ELSE BranchesInsert(bs, stack.base.name, stack.base.id)
  IN IF ContainsOid(b1, stack.onto.id) THEN b1
     ELSE BranchesInsert(b1, stack.onto.name, stack.onto.id)

\* every commit of the onto branch
OntoCommitsAll(cm, stack) == CommitsFrom(cm, stack.onto.id)

\* the commits plan_rebase hands to drop_by_tree_id: those of onto down to
\* merge_base(base, onto), left out
OntoCommits(cm, stack) ==
  TakeUntil(CommitsFrom(cm, stack.onto.id), MergeBase(cm, stack.base.id, stack.onto.id))

\* the graph of plan_rebase after protect_branches and rebase_branches
PlanGraph(cm, st, stack) ==
  RebaseBranches(ProtectBranches(cm, GraphOf(cm, st.head_commit,
                                             WithBaseAndOnto(stack.branches, stack)),
                                 st.protected_branches),
                 stack.onto.id)

\* a plan that re-stacks the branches onto the base of the stack
PlanRebaseMut(cm, st, stack) ==
  LET graphed == WithBaseAndOnto(stack.branches, stack)
      root == GraphOf(cm, st.head_commit, graphed)
  IN IF ~root.ok THEN [ok |-> FALSE, script |-> <<>>]
     ELSE LET g1 == RebaseBranches(ProtectBranches(cm, root, st.protected_branches), stack.base.id)
          IN IF ~g1.ok THEN [ok |-> FALSE, script |-> <<>>]
             ELSE [ok |-> TRUE,
                   script |-> ToScript(cm, Delinearize(DropByTreeId(cm, g1, OntoCommits(cm, stack))),
                                       stack.base.id)]

\* plan_rebase(state, stack)
PlanRebase(cm, st, stack) ==
  LET graphed == WithBaseAndOnto(stack.branches, stack)
      root == GraphOf(cm, st.head_commit, graphed)
  IN IF ~root.ok THEN [ok |-> FALSE, script |-> <<>>]
     ELSE LET g1 == RebaseBranches(ProtectBranches(cm, root, st.protected_branches), stack.onto.id)
          IN IF ~g1.ok THEN [ok |-> FALSE, script |-> <<>>]
             ELSE LET onto_commits == OntoCommits(cm, stack)
                      g2 == Delinearize(DropByTreeId(cm, g1, onto_commits))
                  IN [ok |-> TRUE, script |-> ToScript(cm, g2, stack.onto.id)]

\* the branches graphed by push and show: those of every stack, then every
\* stack's base and onto
RECURSIVE AllStackBranches(_)
AllStackBranches(stacks) ==
  IF stacks = <<>> THEN EmptyBranches
  ELSE BranchesExtend(Head(stacks).branches, AllStackBranches(Tail(stacks)))

RECURSIVE WithAllBasesAndOntos(_, _)
WithAllBasesAndOntos(bs, stacks) ==
  IF stacks = <<>> THEN bs
  ELSE WithAllBasesAndOntos(WithBaseAndOnto(bs, Head(stacks)), Tail(stacks))

\* the graph of push(state): protect_branches, then pushable
PushGraph(cm, st) ==
  LET graphed == WithAllBasesAndOntos(AllStackBranches(st.stacks), st.stacks)
      root == GraphOf(cm, st.head_commit, graphed)
  IN IF ~root.ok THEN NoGraph
     ELSE Pushable(cm, ProtectBranches(cm, root, st.protected_branches))


\* no Node
NoTree == [st |-> "none"]

\* ================================================================ state
VARIABLES
  commits,      \* the object database
  refs,         \* the local branches: name -> commit id
  head,         \* HEAD
  remote,       \* the branches of the remote repository: name -> commit id or NoCommit
  tracking,     \* the remote-tracking branches, as of the last fetch
  dirty,        \* whether the working tree is dirty
  backups,      \* the `git-stack` backup stack, oldest first
  args,         \* the command line
  state,        \* State
  pc,           \* where `stack` is
  idx,          \* the index of the loop over the stacks, or over the scripts
  pulled_ids,   \* pulled_ids of `stack`
  scripts,      \* the planned scripts
  executor,     \* the Executor
  head_name,    \* head_branch.name, as read before the scripts are planned
  success,
  backed_up,
  exit,         \* "running", or how the run ended
  log,          \* the events so far
  refs_before,  \* the local branches when the executor was made
  command,      \* the entry point that runs: `stack`, or `rewrite` of main.rs
  start,        \* the repository when the run started
  graph         \* the Node under construction, when the graph is built on its own

vars == <<commits, refs, head, remote, tracking, dirty, backups, args, state, pc, idx,
          pulled_ids, scripts, executor, head_name, success, backed_up, exit, log, refs_before,
          command, start, graph>>

NoRemote == [n \in Names |-> NoCommit]

\* the repositories a run starts from
Scenarios ==
  { [refs |-> ("main" :> 2),                          remote |-> ("main" :> 2) @@ NoRemote],
    [refs |-> ("main" :> 2 @@ "a" :> 4 @@ "b" :> 5),  remote |-> ("main" :> 3) @@ NoRemote],
    [refs |-> ("main" :> 2 @@ "a" :> 3 @@ "b" :> 4),  remote |-> ("main" :> 3) @@ NoRemote],
    [refs |-> ("main" :> 9 @@ "a" :> 4),              remote |-> ("main" :> 3) @@ NoRemote],
    [refs |-> ("main" :> 2 @@ "rel" :> 6 @@ "a" :> 4 @@ "b" :> 8),
                                                      remote |-> ("main" :> 3 @@ "rel" :> 7) @@ NoRemote],
    [refs |-> ("main" :> 2 @@ "a" :> 2 @@ "b" :> 4),  remote |-> ("main" :> 3 @@ "a" :> 3) @@ NoRemote],
    [refs |-> ("main" :> 3 @@ "a" :> 4),              remote |-> ("main" :> 3) @@ NoRemote],
    [refs |-> ("a" :> 4 @@ "b" :> 5),                 remote |-> NoRemote],
    [refs |-> ("main" :> 2 @@ "a" :> 11),             remote |-> ("main" :> 3) @@ NoRemote],
    [refs |-> ("main" :> 2 @@ "a" :> 12),             remote |-> ("main" :> 3) @@ NoRemote] }

\* HEAD is on one of the branches, or detached at the commit of one of them
HeadsOf(rf) ==
  {Head_(n, rf[n]) : n \in DOMAIN rf}
  \cup {Head_(NoBranch, rf[CHOOSE n \in DOMAIN rf : \A m \in DOMAIN rf : NameRank(n) <= NameRank(m)])}

Args(p, r, u, d, b, o, m) ==
  [pull |-> p, rebase |-> r, push |-> u, dry_run |-> d, base |-> b, onto |-> o, stack |-> m]

Init ==
  /\ commits = InitCommits
  /\ \E sc \in Scenarios :
       /\ refs = sc.refs
       /\ remote = sc.remote
       /\ head \in HeadsOf(sc.refs)
  /\ tracking = NoRemote
  /\ dirty \in BOOLEAN
  /\ backups = <<>>
  /\ \/ /\ command = "stack"
        /\ \E p \in BOOLEAN, r \in BOOLEAN, u \in BOOLEAN, d \in BOOLEAN, c \in ArgChoices :
              args = Args(p, r, u, d, c[1], c[2], c[3])
     \/ /\ command = "rewrite"
        /\ \E c \in ArgChoices : args = Args(FALSE, FALSE, FALSE, FALSE, c[1], c[2], c[3])
  /\ state = EmptyState
  /\ pc = "new"
  /\ idx = 1
  /\ pulled_ids = {}
  /\ scripts = <<>>
  /\ executor = ExecutorNew(FALSE)
  /\ head_name = NoBranch
  /\ success = TRUE
  /\ backed_up = FALSE
  /\ exit = "running"
  /\ log = <<>>
  /\ refs_before = EmptyBranches
  /\ start = [refs |-> refs, head |-> head, remote |-> remote]
  /\ graph = NoTree

\* the run returns with `code`
Return(code) == pc' = "done" /\ exit' = code


\* a dirty check that never sees a dirty tree
TreeIsDirtyMut(d) == FALSE

\* `state.repo.is_dirty()` as `stack` and `rewrite` test it before they go on
TreeIsDirty(d) == d

\* a backup taken whatever the executor did
BackupWantedMut(ex) == TRUE

\* `if executor.is_dirty() {`: whether the backup is taken
BackupWanted(ex) == ExecutorIsDirty(ex)

\* an exit code that forgets `success`
FinalCodeMut(ok) == "ok"

\* the exit code at the end of `stack`
FinalCode(ok) == IF ok THEN "ok" ELSE "failure"

\* the body of `stack` with the push block moved before the rebase block
PhasesMut == <<"pull", "push", "rebase", "show", "finish">>

\* the phases of `stack`, in the order of its body
Phases == <<"pull", "rebase", "push", "show", "finish">>

\* the phase that follows phase p
NextPhase(p) == Phases[(CHOOSE k \in 1..Len(Phases) : Phases[k] = p) + 1]

\* =============================================================== actions
\* State::new(repo, args)
StateNew ==
  /\ pc = "new"
  /\ command = "stack"
  /\ \E cfgOk \in BOOLEAN, r \in StateNewResults(commits, refs, head, args) :
       IF ~cfgOk THEN Return("config") /\ state' = state
       ELSE IF r.exit # "running" THEN Return(r.exit) /\ state' = state
       ELSE /\ pc' = Phases[1]
            /\ exit' = exit
            /\ state' = [branches |-> refs, protected_branches |-> BranchesProtected(refs),
                         head_commit |-> head.id, stacks |-> r.stacks,
                         rebase |-> RebaseFlag(args), pull |-> args.pull, push |-> args.push,
                         dry_run |-> args.dry_run]
  /\ UNCHANGED <<commits, refs, head, remote, tracking, dirty, backups, args, command, start, idx, pulled_ids,
                 scripts, executor, head_name, success, backed_up, log, refs_before>>
  /\ UNCHANGED graph

\* rewrite(args) of main.rs: refuses a dirty repository, else prints the graph
Rewrite ==
  /\ pc = "new"
  /\ command = "rewrite"
  /\ \E cfgOk \in BOOLEAN :
       LET prot == BranchesProtected(refs)
           base == IF args.base # NoBranch THEN ResolveExplicitBase(refs, args.base)
                   ELSE FindProtectedBase(commits, prot, head.id)
       IN IF TreeIsDirty(dirty) THEN Return("usage") /\ log' = log
          ELSE IF ~cfgOk THEN Return("config") /\ log' = log
          ELSE IF base = NoneBranch \/ MergeBase(commits, base.id, head.id) = NoCommit
          THEN Return("usage") /\ log' = log
          ELSE Return("ok") /\ log' = Append(log, Ev("rewrite", "print", base.name, FALSE))
  /\ UNCHANGED <<commits, refs, head, remote, tracking, dirty, backups, args, command, start,
                 state, idx, pulled_ids, scripts, executor, head_name, success, backed_up,
                 refs_before>>
  /\ UNCHANGED graph

\* `if state.pull {`: the dirty check
PullBegin ==
  /\ pc = "pull"
  /\ IF ~state.pull THEN pc' = NextPhase("pull") /\ exit' = exit
     ELSE IF TreeIsDirty(dirty) THEN Return("usage")
     ELSE pc' = "pull_loop" /\ exit' = exit
  /\ idx' = 1
  /\ pulled_ids' = {}
  /\ UNCHANGED <<commits, refs, head, remote, tracking, dirty, backups, args, command, start, state, scripts,
                 executor, head_name, success, backed_up, log, refs_before>>
  /\ UNCHANGED graph

\* pulled ids that take in the first commit of the range
PulledIdsMut(cm, range) == SeqToSet(TakeUntil(CommitsFrom(cm, range[2]), range[1])) \cup {range[1]}

\* the commits of a pulled range: commits_from(range.1) up to range.0, left out
PulledIds(cm, range) == SeqToSet(TakeUntil(CommitsFrom(cm, range[2]), range[1]))

\* whether the pull loop pulls the onto branch of a stack
PullWanted(st, stack) == ContainsOid(st.protected_branches, stack.onto.id)

\* one turn of `for stack in state.stacks.iter()`: git_pull, then drop_branches
PullStack ==
  /\ pc = "pull_loop"
  /\ idx <= Len(state.stacks)
  /\ LET stack == state.stacks[idx]
     IN IF PullWanted(state, stack)
        THEN \E out \in PullOutcomes :
               LET r == GitPull(commits, refs, head, remote, tracking, stack.onto.name,
                                state.dry_run, out)
                   stack_pulled_ids == IF r.ok THEN PulledIds(r.cm, r.range) ELSE {}
                   warn == IF r.ok THEN <<>> ELSE <<Ev("pull", r.why, stack.onto.name, FALSE)>>
               IN /\ commits' = r.cm
                  /\ tracking' = r.trk
                  /\ pulled_ids' = pulled_ids \cup stack_pulled_ids
                  /\ IF stack_pulled_ids # {}
                     THEN \E order \in Perms(stack_pulled_ids \ pulled_ids),
                             fail_at \in 0..(2 * Cardinality(DOMAIN state.branches)) :
                            LET d == DropBranches(r.rf, r.hd, order, stack.onto.name,
                                                  state.branches, state.protected_branches,
                                                  state.dry_run, fail_at)
                            IN /\ fail_at > 0 => ~d.ok
                               /\ refs' = d.rf /\ head' = d.hd
                               /\ log' = log \o r.log \o warn \o d.log
                                         \o (IF d.ok THEN <<>>
                                             ELSE <<Ev("pull", "drop-failed", stack.onto.name, FALSE)>>)
                     ELSE refs' = r.rf /\ head' = r.hd /\ log' = log \o r.log \o warn
        ELSE /\ log' = Append(log, Ev("pull", "not-protected", stack.onto.name, FALSE))
             /\ UNCHANGED <<commits, refs, head, tracking, pulled_ids>>
  /\ idx' = idx + 1
  /\ UNCHANGED <<remote, dirty, backups, args, command, start, state, pc, scripts, executor, head_name,
                 success, backed_up, exit, refs_before>>
  /\ UNCHANGED graph

\* `if !pulled_ids.is_empty() { state.update()? }`
PullEnd ==
  /\ pc = "pull_loop"
  /\ idx > Len(state.stacks)
  /\ LET u == StateUpdate(state, refs, head)
     IN IF pulled_ids = {} THEN pc' = NextPhase("pull") /\ exit' = exit /\ state' = state
        ELSE IF ~u.ok THEN Return("failure") /\ state' = state
        ELSE pc' = NextPhase("pull") /\ exit' = exit /\ state' = u.st
  /\ UNCHANGED <<commits, refs, head, remote, tracking, dirty, backups, args, command, start, idx, pulled_ids,
                 scripts, executor, head_name, success, backed_up, log, refs_before>>
  /\ UNCHANGED graph

\* a rebase block that does not ask for HEAD to be on a branch
RebaseBeginMut ==
  /\ pc = "rebase"
  /\ LET plans == [k \in 1..Len(state.stacks) |-> PlanRebase(commits, state, state.stacks[k])]
     IN IF ~state.rebase
        THEN /\ pc' = NextPhase("rebase") /\ exit' = exit
             /\ UNCHANGED <<scripts, executor, head_name, refs_before>>
        ELSE IF TreeIsDirty(dirty)
        THEN /\ Return("usage")
             /\ UNCHANGED <<scripts, executor, head_name, refs_before>>
        ELSE IF \E k \in 1..Len(plans) : ~plans[k].ok
        THEN /\ Return("failure")
             /\ head_name' = head.branch
             /\ UNCHANGED <<scripts, executor, refs_before>>
        ELSE /\ pc' = "run_scripts" /\ exit' = exit
             /\ head_name' = head.branch
             /\ scripts' = [k \in 1..Len(plans) |-> plans[k].script]
             /\ executor' = ExecutorNew(state.dry_run)
             /\ refs_before' = refs
  /\ idx' = 1
  /\ UNCHANGED <<commits, refs, head, remote, tracking, dirty, backups, args, command, start, state,
                 pulled_ids, success, backed_up, log>>
  /\ UNCHANGED graph

\* `if state.rebase {`: the dirty check, head_branch, the plans, Executor::new
RebaseBegin ==
  /\ pc = "rebase"
  /\ LET plans == [k \in 1..Len(state.stacks) |-> PlanRebase(commits, state, state.stacks[k])]
     IN IF ~state.rebase
        THEN /\ pc' = NextPhase("rebase") /\ exit' = exit
             /\ UNCHANGED <<scripts, executor, head_name, refs_before>>
        ELSE IF TreeIsDirty(dirty) \/ head.branch = NoBranch
        THEN /\ Return("usage")
             /\ UNCHANGED <<scripts, executor, head_name, refs_before>>
        ELSE IF \E k \in 1..Len(plans) : ~plans[k].ok
        THEN /\ Return("failure")
             /\ head_name' = head.branch
             /\ UNCHANGED <<scripts, executor, refs_before>>
        ELSE /\ pc' = "run_scripts" /\ exit' = exit
             /\ head_name' = head.branch
             /\ scripts' = [k \in 1..Len(plans) |-> plans[k].script]
             /\ executor' = ExecutorNew(state.dry_run)
             /\ refs_before' = refs
  /\ idx' = 1
  /\ UNCHANGED <<commits, refs, head, remote, tracking, dirty, backups, args, command, start, state,
                 pulled_ids, success, backed_up, log>>
  /\ UNCHANGED graph

\* the commits a script cherry-picks
PicksOf(script) == {script[k].id : k \in {j \in 1..Len(script) : script[j].op = "CherryPick"}}

\* the error lines of the failures of one script
RECURSIVE FailureLines(_)
FailureLines(fs) ==
  IF fs = <<>> THEN <<>>
  ELSE <<Ev("rebase", "error", Head(fs).name, FALSE)>> \o FailureLines(Tail(fs))

\* one turn of `for script in scripts`: executor.run_script
RunScript ==
  /\ pc = "run_scripts"
  /\ idx <= Len(scripts)
  /\ \E conflicts \in SUBSET PicksOf(scripts[idx]) :
       /\ Cardinality(conflicts) <= MaxConflicts
       /\ state.dry_run => conflicts = {}
       /\ LET x == RunScriptOp(commits, refs, head, executor, scripts[idx], conflicts)
          IN /\ commits' = x.cm
             /\ refs' = x.rf
             /\ head' = x.hd
             /\ executor' = x.ex
             /\ success' = (success /\ x.failures = <<>>)
             /\ log' = log \o x.log \o FailureLines(x.failures)
  /\ idx' = idx + 1
  /\ UNCHANGED <<remote, tracking, dirty, backups, args, command, start, state, pc, pulled_ids, scripts,
                 head_name, backed_up, exit, refs_before>>
  /\ UNCHANGED graph

\* backup::Backup::from_repo(repo): every local branch and its commit
BackupFromRepo(rf) == rf

\* `if executor.is_dirty() {`: the backup
Backup ==
  /\ pc = "run_scripts"
  /\ idx > Len(scripts)
  /\ IF BackupWanted(executor)
     THEN \E stored \in BOOLEAN :
            IF stored
            THEN /\ backups' = Append(backups, BackupFromRepo(refs))
                 /\ log' = Append(log, Ev("rebase", "backup", NoBranch, TRUE))
                 /\ pc' = "close" /\ exit' = exit
            ELSE /\ Return("failure")
                 /\ UNCHANGED <<backups, log>>
     ELSE /\ pc' = "close" /\ exit' = exit
          /\ UNCHANGED <<backups, log>>
  /\ backed_up' = BackupWanted(executor)
  /\ UNCHANGED <<commits, refs, head, remote, tracking, dirty, args, command, start, state, idx, pulled_ids,
                 scripts, executor, head_name, success, refs_before>>
  /\ UNCHANGED graph

\* the end of the rebase block without executor.close: HEAD stays where the
\* scripts left it
CloseMut ==
  /\ pc = "close"
  /\ LET u == StateUpdate(state, refs, head)
     IN IF ~u.ok THEN Return("failure") /\ state' = state
        ELSE pc' = NextPhase("rebase") /\ exit' = exit /\ state' = u.st
  /\ UNCHANGED <<commits, refs, head, remote, tracking, dirty, backups, args, command, start, idx,
                 pulled_ids, scripts, executor, head_name, success, backed_up, log, refs_before,
                 graph>>

\* executor.close(repo, head_branch.name), then state.update()
Close ==
  /\ pc = "close"
  /\ LET c == ExecutorClose(refs, head, executor, head_name)
         u == StateUpdate(state, refs, c.hd)
     IN /\ head' = c.hd
        /\ log' = log \o c.log
        /\ IF ~c.ok \/ ~u.ok THEN Return("failure") /\ state' = state
           ELSE pc' = NextPhase("rebase") /\ exit' = exit /\ state' = u.st
  /\ UNCHANGED <<commits, refs, remote, tracking, dirty, backups, args, command, start, idx, pulled_ids,
                 scripts, executor, head_name, success, backed_up, refs_before>>
  /\ UNCHANGED graph


\* number of branches whose push may be chosen to fail
MaxPushFailures == 1

\* the names of an event sequence that were pushed for real
PushedNames(evs) == {evs[k].name : k \in {j \in 1..Len(evs) : evs[j].op = "push" /\ evs[j].real}}

\* `if state.push {`: push(state), then state.update()
Push ==
  /\ pc = "push"
  /\ IF ~state.push
     THEN /\ pc' = NextPhase("push") /\ exit' = exit
          /\ UNCHANGED <<remote, tracking, state, log>>
     ELSE LET g == PushGraph(commits, state)
          IN IF ~g.ok
             THEN Return("failure") /\ UNCHANGED <<remote, tracking, state, log>>
             ELSE \E failing \in SUBSET {n \in DOMAIN refs : ~IsProtectedName(n)} :
                    /\ Cardinality(failing) <= MaxPushFailures
                    /\ state.dry_run => failing = {}
                    /\ LET r == GitPush(commits, g, state.dry_run, failing)
                           done == PushedNames(r.log) \ failing
                           u == StateUpdate(state, refs, head)
                       IN /\ failing \subseteq PushedNames(r.log)
                          /\ log' = log \o r.log
                          /\ remote' = [n \in Names |-> IF n \in done THEN refs[n] ELSE remote[n]]
                          /\ tracking' = [n \in Names |-> IF n \in done THEN refs[n] ELSE tracking[n]]
                          /\ IF ~r.ok \/ ~u.ok THEN Return("failure") /\ state' = state
                             ELSE pc' = NextPhase("push") /\ exit' = exit /\ state' = u.st
  /\ UNCHANGED <<commits, refs, head, dirty, backups, args, command, start, idx, pulled_ids, scripts, executor,
                 head_name, success, backed_up, refs_before>>
  /\ UNCHANGED graph

\* show(state, colored_stdout): writes the tree, or fails
Show ==
  /\ pc = "show"
  /\ \E written \in BOOLEAN :
       IF written THEN pc' = NextPhase("show") /\ exit' = exit
       ELSE Return("failure")
  /\ UNCHANGED <<commits, refs, head, remote, tracking, dirty, backups, args, command, start, state, idx,
                 pulled_ids, scripts, executor, head_name, success, backed_up, log, refs_before>>
  /\ UNCHANGED graph

\* the end of `stack`: the undo message, the exit code
Finish ==
  /\ pc = "finish"
  /\ log' = IF backed_up THEN Append(log, Ev("end", "undo", "git-stack", FALSE)) ELSE log
  /\ Return(FinalCode(success))
  /\ UNCHANGED <<commits, refs, head, remote, tracking, dirty, backups, args, command, start, state, idx,
                 pulled_ids, scripts, executor, head_name, success, backed_up, refs_before>>
  /\ UNCHANGED graph

Next ==
  \/ StateNew
  \/ Rewrite
  \/ PullBegin
  \/ PullStack
  \/ PullEnd
  \/ RebaseBegin
  \/ RunScript
  \/ Backup
  \/ Close
  \/ Push
  \/ Show
  \/ Finish

Spec == Init /\ [][Next]_vars


\* ================================================================ claims
\* the events of a log, by kind
IsPullEffect(e) == e.phase = "pull" /\ e.real
IsScriptCommand(e) == e.phase = "rebase" /\ e.op \in {"cherry-pick", "CreateBranch", "DeleteBranch"}
IsPushAttempt(e) == e.phase = "push" /\ e.op = "push"
Logged(P(_)) == \E k \in 1..Len(log) : P(log[k])

\* C1: in every run, every side effect of the pull phase (fetch, update of the
\* pulled branch, pruning) comes before the first script command of the rebase,
\* and every script command comes before the first push that is attempted.
C1_PhaseOrder ==
  \A i \in 1..Len(log) : \A j \in (i + 1)..Len(log) :
    /\ ~(IsScriptCommand(log[i]) /\ IsPullEffect(log[j]))
    /\ ~(IsPushAttempt(log[i]) /\ (IsScriptCommand(log[j]) \/ IsPullEffect(log[j])))

\* a finished run that pulled for real, ran script commands and pushed
C1_Witness ==
  /\ pc = "done"
  /\ Logged(IsPullEffect) /\ Logged(IsScriptCommand) /\ Logged(IsPushAttempt)

\* whether State::new has built the State of the run
StateBuilt == state # EmptyState

\* C2 as claimed: any requested operation run while the working tree is dirty
\* returns a usage error, with no backup taken and no ref created, moved or
\* deleted.
C2_Original ==
  (/\ pc = "done" /\ dirty
   /\ \/ command = "rewrite"
      \/ StateBuilt /\ (args.pull \/ args.rebase \/ args.push))
  => (exit = "usage" /\ backups = <<>> /\ refs = start.refs)

\* C2 (amended): a run that asks for a pull or a rebase, and `rewrite`, while
\* the working tree is dirty never takes a backup and never creates, moves or
\* deletes a ref, and once State::new has built the State it ends with a usage
\* error; `rewrite` ends with a usage error at once.
C2_DirtyTree ==
  (dirty /\ (command = "rewrite" \/ RebaseFlag(args)))
  => /\ backups = <<>> /\ refs = start.refs /\ head = start.head
     /\ pc = "done" /\ (command = "rewrite" \/ StateBuilt) => exit = "usage"
     /\ pc \in {"new", "pull", "rebase", "done"}

\* a run with a rebase asked for that passed State::new and stopped on the dirty tree
C2_Witness ==
  /\ pc = "done" /\ dirty /\ command = "stack" /\ StateBuilt
  /\ args.rebase /\ ~args.pull /\ exit = "usage"

IsReal(e) == e.real
IsPullLine(e) == e.phase = "pull" /\ e.op = "git pull --rebase"

\* C3: with dry_run set, whatever the pull, prune, rebase, backup and push
\* phases do, the local branches, HEAD, the backup stack and the remote stay as
\* they were when the run started, and no fetch, push, branch creation,
\* deletion or switch is performed.
C3_DryRunPurity ==
  args.dry_run =>
    /\ refs = start.refs /\ head = start.head /\ remote = start.remote
    /\ tracking = NoRemote /\ backups = <<>>
    /\ ~Logged(IsReal)

\* a finished dry run that went through a pull, script commands and a push
C3_Witness ==
  /\ args.dry_run /\ pc = "done" /\ exit = "ok"
  /\ Logged(IsPullLine) /\ Logged(IsScriptCommand) /\ Logged(IsPushAttempt)

\* whether every planned script is empty
NoCommands == \A k \in 1..Len(scripts) : scripts[k] = <<>>

C5_Original == backups # <<>> => backups[Len(backups)] = refs_before

IsUndoMessage(e) == e.phase = "end" /\ e.op = "undo"

\* C6 as claimed: whenever a backup was taken during a run, the undo message is
\* printed before the run ends, whatever the push and the show do.
C6_Original == (pc = "done" /\ backups # <<>>) => Logged(IsUndoMessage)

IsPullWarning(e) == e.phase = "pull" /\ e.op \in PullWarnings
IsPullFailure(e) == e.phase = "pull" /\ e.op \in PullFailures
IsRestackError(e) == e.phase = "rebase" /\ e.op = "error"
IsPushError(e) == e.phase = "push" /\ e.op = "error"

\* the number of stacks the pull loop has gone through
PullTurns ==
  Cardinality({k \in 1..Len(log) : log[k].phase = "pull"
                                    /\ log[k].op \in {"git pull --rebase", "not-protected"}})

\* the pull loop, and every script, were gone through to their end
AllProcessed ==
  /\ pc = "pull_loop" => PullTurns = idx - 1
  /\ (state.pull /\ pc \in {"rebase", "run_scripts", "close", "push", "show", "finish"})
       => PullTurns = Len(state.stacks)
  /\ (state.rebase /\ pc \in {"close", "push", "show", "finish"}) => idx = Len(scripts) + 1
  /\ success <=> ~Logged(IsRestackError)

C8_Original ==
  (pc = "done" /\ command = "stack" /\ exit \in {"usage", "config"})
  => (refs = start.refs /\ backups = <<>> /\ remote = start.remote /\ ~Logged(IsPushAttempt))

\* C9 as claimed: a pull is attempted for a stack exactly when the name of its
\* onto branch matches the protected patterns.
C9_Original ==
  \A k \in 1..Len(log) :
    /\ IsPullLine(log[k]) => IsProtectedName(log[k].name)
    /\ (log[k].phase = "pull" /\ log[k].op = "not-protected") => ~IsProtectedName(log[k].name)

\* a turn of the pull loop whose fetch or in-memory rebase failed
FailedPullStep ==
  /\ pc = "pull_loop"
  /\ Len(log') > Len(log)
  /\ IsPullFailure(log'[Len(log')])

\* C10: when the fetch or the in-memory rebase of the onto branch of one stack
\* fails, the local branches and HEAD are as they were before the pull of that
\* stack, no branch is pruned for it, the loop goes on with the next stack, and
\* the pull loop is left only after its last stack, for the rebase phase
\* (or with a failure of State::update after another stack was pulled).
C10_FailedPullConfined ==
  [][/\ FailedPullStep
        => /\ refs' = refs /\ head' = head /\ pulled_ids' = pulled_ids
           /\ \A k \in (Len(log) + 1)..Len(log') : log'[k].op # "delete"
           /\ pc' = "pull_loop" /\ idx' = idx + 1
     /\ (pc = "pull_loop" /\ pc' # "pull_loop")
        => /\ idx > Len(state.stacks)
           /\ \/ pc' = "rebase"
              \/ pulled_ids # {} /\ pc' = "done" /\ exit' = "failure"]_vars

\* a run in its rebase phase after the pull of one stack failed and a later
\* stack was still fetched
C10_Witness ==
  /\ pc = "run_scripts"
  /\ \E i \in 1..Len(log) : \E j \in (i + 1)..Len(log) :
        IsPullFailure(log[i]) /\ log[j].phase = "pull" /\ log[j].op = "fetch"

\* ------------------------------------------------- one turn of the pull loop
\* a step that is one turn of the pull loop, the stack it is about, the events
\* it logs and the branches it deletes
PullTurn == pc = "pull_loop" /\ idx' = idx + 1
PulledName == state.stacks[idx].onto.name
NewEvents == SubSeq(log', Len(log) + 1, Len(log'))
NewlyLogged(P(_)) == \E k \in (Len(log) + 1)..Len(log') : P(log'[k])
Deleted == DOMAIN refs \ DOMAIN refs'
IsDropFailure(e) == e.phase = "pull" /\ e.op = "drop-failed"
IsPullDelete(e) == e.phase = "pull" /\ e.op = "delete" /\ e.real

\* the turn pulled its branch: git_pull was called, for real, and returned Ok
PullSucceeded == NewlyLogged(IsPullLine) /\ ~NewlyLogged(IsPullWarning) /\ ~state.dry_run

\* the commits that arrived with the pull: those of the fetched remote branch
\* that the local branch did not have
Arrived ==
  IF PullSucceeded /\ tracking'[PulledName] # NoCommit
  THEN {c \in SeqToSet(CommitsFrom(commits, tracking'[PulledName])) :
          ~IsAncestor(commits, c, refs[PulledName])}
  ELSE {}

\* the local branches the claim has pruned
Prunable ==
  {n \in DOMAIN refs : ~IsProtectedName(n) /\ refs[n] \in Arrived /\ n # PulledName}

C12_HeadLeavesPruned ==
  [][(PullTurn /\ head.branch # NoBranch /\ head.branch # PulledName
               /\ \E k \in 1..Len(NewEvents) :
                     NewEvents[k].op = "delete" /\ NewEvents[k].name = head.branch)
     => /\ \E i \in 1..Len(NewEvents) : \E j \in (i + 1)..Len(NewEvents) :
              /\ NewEvents[i].op = "switch" /\ NewEvents[i].name = PulledName
              /\ NewEvents[i].real = ~state.dry_run
              /\ NewEvents[j].op = "delete" /\ NewEvents[j].name = head.branch
        /\ ~state.dry_run => (head'.branch = PulledName /\ head'.id = refs'[PulledName])
        /\ head'.branch \in DOMAIN refs']_vars

\* a run in which the branch HEAD was on was pruned
C12_Witness ==
  /\ start.head.branch # NoBranch /\ start.head.branch \notin DOMAIN refs
  /\ \E k \in 1..Len(log) :
        IsPullDelete(log[k]) /\ log[k].name = start.head.branch

\* the turn pulled its branch and moved it: git_pull returned Ok after
\* `repo.branch(branch_name, tip_id)`
PullMoved ==
  /\ PullTurn /\ PullSucceeded
  /\ \E k \in 1..Len(NewEvents) :
        NewEvents[k] = Ev("pull", "branch", PulledName, TRUE)

\* C13: after a successful pull the pulled branch points at the new tip (the
\* fetched remote tip with the local commits replayed on it); if HEAD was on
\* the pulled branch it is attached to it afterwards, at the new tip, the
\* steps being detach, reset of the branch, switch, in this order; if HEAD was
\* elsewhere (and not on a branch the pull made obsolete) it is unchanged.
C13_PulledRefAndHead ==
  [][PullMoved =>
       LET name == PulledName
           up   == tracking'[name]
           base == MergeBase(commits, refs[name], up)
       IN /\ name \in DOMAIN refs'
          /\ IsAncestor(commits', up, refs'[name])
          /\ Distance(commits', up, refs'[name]) = Distance(commits, base, refs[name])
          /\ head.branch = name =>
                /\ head' = Head_(name, refs'[name])
                /\ \E i, j, k \in 1..Len(NewEvents) :
                      /\ i < j /\ j < k
                      /\ NewEvents[i] = Ev("pull", "detach", NoBranch, TRUE)
                      /\ NewEvents[j] = Ev("pull", "branch", name, TRUE)
                      /\ NewEvents[k] = Ev("pull", "switch", name, TRUE)
          /\ (head.branch # name /\ head.branch \notin Prunable) => head' = head]_vars

\* a run that pulled the branch HEAD is on, with a local commit replayed
C13_Witness ==
  /\ \E k \in 1..Len(log) : \E n \in DOMAIN refs :
        /\ log[k] = Ev("pull", "switch", n, TRUE)
        /\ start.head.branch = n /\ head = Head_(n, refs[n])
        /\ refs[n] > Len(InitCommits)
  /\ ~Logged(IsPullWarning)

\* the turn fetched, and the local branch already holds the remote tip
PullUpToDate ==
  /\ PullTurn /\ PullSucceeded
  /\ PulledName \in DOMAIN refs
  /\ tracking'[PulledName] # NoCommit
  /\ MergeBase(commits, refs[PulledName], tracking'[PulledName]) = tracking'[PulledName]

\* C14: when the merge base of the local branch and its fetched remote branch
\* is the remote tip, the branch is up to date: the pull moves no ref, leaves
\* HEAD alone, creates no commit, reports no commit as pulled and prunes
\* nothing.
C14_UpToDate ==
  [][PullUpToDate =>
       /\ refs' = refs /\ head' = head /\ commits' = commits
       /\ pulled_ids' = pulled_ids
       /\ \A k \in 1..Len(NewEvents) :
             NewEvents[k].op \in {"git pull --rebase", "fetch"}]_vars

\* a real pull of a branch that was up to date has been done
C14_Witness ==
  /\ pc = "rebase" /\ ~state.dry_run /\ ~Logged(IsPullWarning)
  /\ \E k \in 1..Len(log) :
        /\ log[k].phase = "pull" /\ log[k].op = "fetch" /\ log[k].real
        /\ log[k].name \in DOMAIN refs
        /\ tracking[log[k].name] # NoCommit
        /\ MergeBase(commits, start.refs[log[k].name], tracking[log[k].name])
             = tracking[log[k].name]
  /\ refs = start.refs /\ head = start.head /\ pulled_ids = {}

\* what git_pull returns in the state of a turn of the pull loop, for every
\* outcome of the fetch, the rebase and the update that lets it return Ok
PullReturns ==
  {r.range : r \in {q \in {GitPull(commits, refs, head, remote, tracking, PulledName,
                                     state.dry_run, out) : out \in PullOutcomes} : q.ok}}

\* the commits from a tip down to, and without, a base
Interval(cm, base, tip) == SeqToSet(TakeUntil(CommitsFrom(cm, tip), base))

\* C15 as claimed: a successful pull that is not up to date returns the merge
\* base of the old local tip and the remote, and the commit the pulled branch
\* points at after the pull; these commits are the ones recorded as pulled.
C15_Original ==
  [][PullMoved =>
       LET base == MergeBase(commits, refs[PulledName], tracking'[PulledName])
       IN /\ PullReturns = {<<base, refs'[PulledName]>>}
          /\ pulled_ids' = pulled_ids \cup Interval(commits', base, refs'[PulledName])]_vars

\* C15 (amended): a successful pull that is not up to date returns the merge
\* base of the old local tip and the remote, and the fetched remote tip; the
\* commits between them are the ones recorded as pulled. The remote tip is the
\* commit the pulled branch points at afterwards only if no local commit was
\* replayed.
C15_PulledRange ==
  [][PullMoved =>
       LET name == PulledName
           base == MergeBase(commits, refs[name], tracking'[name])
       IN /\ PullReturns = {<<base, tracking'[name]>>}
          /\ pulled_ids' = pulled_ids \cup Interval(commits', base, tracking'[name])
          /\ (tracking'[name] = refs'[name]) <=> (base = refs[name])]_vars

\* a pull that replayed a local commit on the fetched commits has been done
C15_Witness ==
  /\ pulled_ids # {} /\ ~Logged(IsPullWarning)
  /\ \E n \in DOMAIN refs :
        /\ Logged(LAMBDA e : e = Ev("pull", "branch", n, TRUE))
        /\ tracking[n] # NoCommit /\ refs[n] # tracking[n]
        /\ IsAncestor(commits, tracking[n], refs[n])
        /\ tracking[n] \in pulled_ids /\ refs[n] \notin pulled_ids

\* --------------------------------------------------------- the push phase
\* a step that is the push of the graph of the stacks
PushTurn == pc = "push" /\ state.push /\ PushGraph(commits, state).ok /\ log' # log

\* the branches the step pushed or tried to, those it left out with a "skip",
\* and those its error names
Attempted == {NewEvents[k].name : k \in {j \in 1..Len(NewEvents) : NewEvents[j].op = "push"}}
Skipped == {NewEvents[k].name : k \in {j \in 1..Len(NewEvents) : NewEvents[j].op = "skip"}}
NamedFailed == {NewEvents[k].name : k \in {j \in 1..Len(NewEvents) : NewEvents[j].op = "error"}}

\* the nodes of g that carry a branch of names
Carriers(g, names) == {v \in g.nodes : SeqToSet(g.branches[v]) \cap names # {}}

\* the nodes of g below a node that carries a branch of names
Below(cm, g, names) ==
  UNION {GraphDescendants(cm, g, v) \ {v} : v \in Carriers(g, names)}

C17_PushIffPushable ==
  [][PushTurn =>
       LET g == PushGraph(commits, state)
       IN /\ \A n \in Attempted : \A v \in Carriers(g, {n}) :
               g.pushable[v] /\ g.action[v] # "Protected"
          /\ \A n \in Skipped : \A v \in Carriers(g, {n}) : ~g.pushable[v]
          /\ Attempted \cap DOMAIN state.protected_branches = {}
          /\ \A v \in g.nodes \ Below(commits, g, NamedFailed) :
               g.pushable[v] => SeqToSet(g.branches[v]) \subseteq Attempted
          /\ \A n \in Names :
               (remote'[n] # remote[n] \/ tracking'[n] # tracking[n]) => n \in Attempted]_vars

\* a push phase that pushed a branch and passed over a protected one
C17_Witness ==
  /\ \E k \in 1..Len(log) : IsPushAttempt(log[k]) /\ log[k].real
  /\ \E k \in 1..Len(log) :
        log[k].phase = "push" /\ log[k].op = "skip" /\ IsProtectedName(log[k].name)

\* ------------------------------------------------------ State and repository
\* the State agrees with the repository: the branch index, the protected
\* branches, the head commit, and the base and the onto of every stack
Synced ==
  /\ state.head_commit = head.id
  /\ state.branches = refs
  /\ state.protected_branches = BranchesProtected(refs)
  /\ \A k \in 1..Len(state.stacks) :
        LET stack == state.stacks[k]
        IN /\ stack.base.name \in DOMAIN refs /\ stack.base.id = refs[stack.base.name]
           /\ stack.onto.name \in DOMAIN refs /\ stack.onto.id = refs[stack.onto.name]

\* C18 as claimed: whenever a phase has changed a ref or HEAD, State::update
\* is called before the next phase starts, so that the branch index, the
\* protected-branch index, the head commit and every stack's base and onto the
\* next phase uses equal the repository's current refs.
C18_Original == pc \in {"rebase", "push", "show"} => Synced

\* ======================================================== graph::Node, as a tree
\* A commit graph with a merge commit and an unrelated root: 2 and 4 are on 1,
\* 3 is on 2, 5 merges 3 into 4 (first parent 4), 6 is on 5, 7 has no parent.
DagCommits ==
  << [parent |-> 0, others |-> {}, tree |-> 1], [parent |-> 1, others |-> {}, tree |-> 2],
     [parent |-> 2, others |-> {}, tree |-> 3], [parent |-> 1, others |-> {}, tree |-> 4],
     [parent |-> 4, others |-> {3}, tree |-> 5], [parent |-> 5, others |-> {}, tree |-> 6],
     [parent |-> 0, others |-> {}, tree |-> 7] >>

\* Commit.parent_ids
ParentIds(cm, c) == ({cm[c].parent} \cup cm[c].others) \ {NoCommit}

\* the commits reachable from c through any parent, c included
RECURSIVE DagAncestors(_, _)
DagAncestors(cm, c) == {c} \cup UNION {DagAncestors(cm, q) : q \in ParentIds(cm, c)}

\* Repo::merge_base(a, b): the best common ancestor, or none
DagMergeBase(cm, a, b) ==
  LET common == DagAncestors(cm, a) \cap DagAncestors(cm, b)
      best == {c \in common : \A d \in common \ {c} : c \notin DagAncestors(cm, d)}
  IN IF common = {} THEN NoCommit ELSE CHOOSE c \in best : \A d \in best : c >= d

\* the results of the constructors: Ok(node), Err(..), or a panic
TreeOk(node, bs) == [st |-> "ok", node |-> node, bs |-> bs]
TreeErr(bs) == [st |-> "err", bs |-> bs]
TreePanic(bs) == [st |-> "panic", bs |-> bs]

\* a node that leaves its branches in the index it took them from
TreeNewKeep(c, bs) ==
  TreeOk([id |-> c, branches |-> SortNames(BranchesAt(bs, c)), action |-> "Pick",
          pushable |-> FALSE, children |-> <<>>],
         bs)

\* Node::new(local_commit, possible_branches)
TreeNew(c, bs) ==
  TreeOk([id |-> c, branches |-> SortNames(BranchesAt(bs, c)), action |-> "Pick",
          pushable |-> FALSE, children |-> <<>>],
         BranchesRemove(bs, c))

\* one turn of the loop of populate: the commit becomes the parent of the chain
TreeParent(n, child, action) ==
  TreeOk([n.node EXCEPT !.action = action, !.children = (child.id :> child)], n.bs)

\* the loop of populate over commits_from(head_oid) after the head: every
\* commit becomes the parent of the chain so far, until base_oid is met
RECURSIVE TreeChain(_, _, _, _)
TreeChain(rest, r, action, base) ==
  IF rest = <<>> \/ r.node.id = base THEN r
  ELSE TreeChain(Tail(rest), TreeParent(TreeNew(Head(rest), r.bs), r.node, action), action, base)

\* Node::new, then `root.action = default_action`
TreeRoot(n, action) == TreeOk([n.node EXCEPT !.action = action], n.bs)

\* Node::populate(repo, base_oid, head_oid, branches, default_action)
TreePopulate(cm, base, head_oid, bs, action) ==
  IF DagMergeBase(cm, base, head_oid) # base THEN TreeErr(bs)
  ELSE IF head_oid # base
  THEN TreeChain(Tail(CommitsFrom(cm, head_oid)), TreeRoot(TreeNew(head_oid, bs), action),
                 action, base)
  ELSE TreeRoot(TreeNew(head_oid, bs), action)

\* a merge that hangs the children of a child both nodes have beside that child
TreeMergeFlat(self, other) ==
  IF self.id # other.id THEN TreePanic(EmptyBranches)
  ELSE LET both == DOMAIN self.children \cap DOMAIN other.children
           lifted == UNION {{other.children[k].children[j] : j \in DOMAIN other.children[k].children}
                            : k \in both}
           kids == DOMAIN self.children \cup DOMAIN other.children \cup {n.id : n \in lifted}
       IN TreeOk([self EXCEPT
                    !.branches = @ \o other.branches,
                    !.children =
                      [k \in kids |->
                         IF k \in DOMAIN self.children THEN self.children[k]
                         ELSE IF k \in DOMAIN other.children THEN other.children[k]
                         ELSE CHOOSE n \in lifted : n.id = k]],
                 EmptyBranches)

\* a merge that keeps its own child where both nodes have the same child
TreeMergeKeep(self, other) ==
  IF self.id # other.id THEN TreePanic(EmptyBranches)
  ELSE TreeOk([self EXCEPT
                 !.branches = @ \o other.branches,
                 !.children =
                   [k \in DOMAIN self.children \cup DOMAIN other.children |->
                      IF k \in DOMAIN self.children THEN self.children[k]
                      ELSE other.children[k]]],
              EmptyBranches)

\* a merge without the assertion on the commit ids
RECURSIVE TreeMergeAny(_, _)
TreeMergeAny(self, other) ==
  TreeOk([self EXCEPT
            !.branches = @ \o other.branches,
            !.children =
              [k \in DOMAIN self.children \cup DOMAIN other.children |->
                 IF k \in DOMAIN self.children /\ k \in DOMAIN other.children
                 THEN TreeMergeAny(self.children[k], other.children[k]).node
                 ELSE IF k \in DOMAIN self.children THEN self.children[k]
                 ELSE other.children[k]]],
         EmptyBranches)

\* Node::merge(self, other): panics unless both are at the same commit
RECURSIVE TreeMerge(_, _)
TreeMerge(self, other) ==
  IF self.id # other.id THEN TreePanic(EmptyBranches)
  ELSE LET both == DOMAIN self.children \cap DOMAIN other.children
           merged == [k \in both |-> TreeMerge(self.children[k], other.children[k])]
       IN IF \E k \in both : merged[k].st # "ok" THEN TreePanic(EmptyBranches)
          ELSE TreeOk([self EXCEPT
                         !.branches = @ \o other.branches,
                         !.children =
                           [k \in DOMAIN self.children \cup DOMAIN other.children |->
                              IF k \in both THEN merged[k].node
                              ELSE IF k \in DOMAIN self.children THEN self.children[k]
                              ELSE other.children[k]]],
                      EmptyBranches)

\* Node::find_commit_mut(id): the way down to the first node at the commit, in
\* depth-first order
RECURSIVE FindCommitMut(_, _)
FindCommitMut(node, id) ==
  IF node.id = id THEN [found |-> TRUE, path |-> <<>>]
  ELSE LET kids == SortIds(DOMAIN node.children)
           hits == {k \in 1..Len(kids) : FindCommitMut(node.children[kids[k]], id).found}
       IN IF hits = {} THEN [found |-> FALSE, path |-> <<>>]
          ELSE LET c == kids[CHOOSE k \in hits : \A j \in hits : k <= j]
               IN [found |-> TRUE, path |-> <<c>> \o FindCommitMut(node.children[c], id).path]

\* the node with the child at k replaced by the outcome of the merge below it
TreeRehang(node, k, m) ==
  IF m.st # "ok" THEN m ELSE TreeOk([node EXCEPT !.children[k] = m.node], EmptyBranches)

\* `node.merge(other)` on the node find_commit_mut returned
RECURSIVE TreeMergeAt(_, _, _)
TreeMergeAt(node, path, other) ==
  IF path = <<>> THEN TreeMerge(node, other)
  ELSE TreeRehang(node, Head(path),
                  TreeMergeAt(node.children[Head(path)], Tail(path), other))

\* `prefix.extend(repo, node)`: node.id is found at the end of the chain
TreeUnder(prefix, node) ==
  IF prefix.st # "ok" THEN prefix
  ELSE TreeMergeAt(prefix.node, FindCommitMut(prefix.node, node.id).path, node)

\* the prefix of extend: populate(merge_base, node.id, &mut empty, node.action),
\* then prefix.extend(repo, node)
TreePrefix(cm, mb, node) ==
  IF mb = node.id THEN TreeOk(node, EmptyBranches)
  ELSE TreeUnder(TreePopulate(cm, mb, node.id, EmptyBranches, node.action), node)

\* the end of extend: `self.merge(other)`, unless a prefix failed
TreeJoin(s1, o1) ==
  IF s1.st # "ok" THEN s1 ELSE IF o1.st # "ok" THEN o1 ELSE TreeMerge(s1.node, o1.node)

\* Node::extend(self, repo, other)
TreeExtend(cm, self, other) ==
  IF FindCommitMut(self, other.id).found
  THEN TreeMergeAt(self, FindCommitMut(self, other.id).path, other)
  ELSE IF DagMergeBase(cm, self.id, other.id) = NoCommit THEN TreeErr(EmptyBranches)
  ELSE TreeJoin(TreePrefix(cm, DagMergeBase(cm, self.id, other.id), self),
                TreePrefix(cm, DagMergeBase(cm, self.id, other.id), other))

\* a result, with the possible_branches the caller is left with
WithBranches(r, bs) == [r EXCEPT !.bs = bs]

\* insert_commit: `self = prefix.extend(repo, self)?`
InsertUnder(cm, prefix, self) ==
  IF prefix.st # "ok" THEN prefix
  ELSE WithBranches(TreeExtend(cm, prefix.node, self), prefix.bs)

\* insert_commit: `if merge_base_id != self.local_commit.id { .. }`
InsertPrefix(cm, mb, self, bs) ==
  IF mb = self.id THEN TreeOk(self, bs)
  ELSE InsertUnder(cm, TreePopulate(cm, mb, self.id, bs, self.action), self)

\* insert_commit: `self.merge(other)`
InsertMerge(self, other) ==
  IF other.st # "ok" THEN other
  ELSE WithBranches(TreeMerge(self, other.node), other.bs)

\* insert_commit: `let other = Node::populate(..)?; self.merge(other)`
InsertOther(cm, s1, c) ==
  IF s1.st # "ok" THEN s1
  ELSE InsertMerge(s1.node, TreePopulate(cm, s1.node.id, c, s1.bs, "Pick"))

\* Node::insert_commit(self, repo, local_commit, possible_branches)
TreeInsertCommit(cm, self, c, bs) ==
  IF DagMergeBase(cm, self.id, c) = NoCommit THEN TreeErr(bs)
  ELSE InsertOther(cm, InsertPrefix(cm, DagMergeBase(cm, self.id, c), self, bs), c)

\* the loops of from_branches and of extend_branches: insert_commit for every
\* id, in the order fixed before the loop; r is the graph so far
RECURSIVE TreeInsertAll(_, _, _)
TreeInsertAll(cm, r, ids) ==
  IF ids = <<>> \/ r.st # "ok" THEN r
  ELSE TreeInsertAll(cm, TreeInsertCommit(cm, r.node, Head(ids), r.bs), Tail(ids))

\* Node::extend_branches(self, repo, branches)
TreeExtendBranches(cm, self, bs) ==
  IF bs = EmptyBranches THEN TreeOk(self, bs)
  ELSE TreeInsertAll(cm, TreeOk(self, bs), BranchIdsByName(bs))

\* the key of `sort_by_key`: the name of the first branch at the commit
FirstNameRank(bs, id) == NameRank(SortNames(BranchesAt(bs, id))[1])

\* one step of the stable sort: the id goes behind the ids whose key is not
\* greater than its own
InsertByKey(bs, sorted, id) ==
  LET k == Cardinality({i \in 1..Len(sorted) :
                          FirstNameRank(bs, sorted[i]) <= FirstNameRank(bs, id)})
  IN SubSeq(sorted, 1, k) \o <<id>> \o SubSeq(sorted, k + 1, Len(sorted))

\* the ids in the order `branches.oids()` gave them
BranchIdsUnsorted(bs, oids) == oids

\* `branch_ids.sort_by_key(|id| &branches.get(*id).unwrap()[0].name)` on the
\* ids in the order `branches.oids()` gave them
RECURSIVE BranchIdsSorted(_, _)
BranchIdsSorted(bs, oids) ==
  IF oids = <<>> THEN <<>>
  ELSE InsertByKey(bs, BranchIdsSorted(bs, SubSeq(oids, 1, Len(oids) - 1)), oids[Len(oids)])

\* the loop of from_branches over the sorted ids, the first being the root
TreeFromSorted(cm, bs, ids) == TreeInsertAll(cm, TreeNew(Head(ids), bs), Tail(ids))

\* Node::from_branches(repo, branches), `branches.oids()` giving the ids in
\* the order oids
TreeFromBranchesIn(cm, bs, oids) ==
  IF bs = EmptyBranches THEN TreeErr(bs)
  ELSE TreeFromSorted(cm, bs, BranchIdsSorted(bs, oids))

\* Node::from_branches(repo, branches)
TreeFromBranches(cm, bs) ==
  IF bs = EmptyBranches THEN TreeErr(bs)
  ELSE TreeInsertAll(cm, TreeNew(Head(BranchIdsByName(bs)), bs), Tail(BranchIdsByName(bs)))

\* the commit ids of the nodes of a tree, root first, one entry per node
RECURSIVE TreeIds(_)
RECURSIVE TreeIdsOf(_, _)
TreeIds(node) == <<node.id>> \o TreeIdsOf(node, SortIds(DOMAIN node.children))
TreeIdsOf(node, kids) ==
  IF kids = <<>> THEN <<>>
  ELSE TreeIds(node.children[Head(kids)]) \o TreeIdsOf(node, Tail(kids))

\* the parent-to-child edges of a tree
RECURSIVE TreeEdges(_)
TreeEdges(node) ==
  {<<node.id, k>> : k \in DOMAIN node.children}
    \cup UNION {TreeEdges(node.children[k]) : k \in DOMAIN node.children}

\* the branches on the nodes of a tree, each with the commit of its node, root
\* first, one entry per recorded branch
RECURSIVE TreeBranches(_)
RECURSIVE TreeBranchesOf(_, _)
TreeBranches(node) ==
  [i \in 1..Len(node.branches) |-> <<node.branches[i], node.id>>]
    \o TreeBranchesOf(node, SortIds(DOMAIN node.children))
TreeBranchesOf(node, kids) ==
  IF kids = <<>> THEN <<>>
  ELSE TreeBranches(node.children[Head(kids)]) \o TreeBranchesOf(node, Tail(kids))

\* the branch names on the nodes of a tree
RECURSIVE TreeNames(_)
TreeNames(node) ==
  SeqToSet(node.branches) \cup UNION {TreeNames(node.children[k]) : k \in DOMAIN node.children}

\* ------------------------------------------------- building graphs on their own
\* number of insert_commit, extend_branches and extend calls on one graph
MaxGraphOps == 2

\* the branch sets graphs are built from: up to three branches on DagCommits
GraphBranchSets ==
  UNION {[S -> 1..Len(DagCommits)] : S \in SUBSET {"a", "b", "main"}}

\* the branches handed to a later call: none, or one the graph does not have
LaterBranchSets(node) ==
  {EmptyBranches} \cup UNION {[{n} -> 1..Len(DagCommits)] : n \in {"rel"} \ TreeNames(node)}

\* the branches another graph is built from, none of which the graph has
OtherBranchSets(node) ==
  UNION {[S -> 1..Len(DagCommits)] : S \in SUBSET ({"b", "rel"} \ TreeNames(node)) \ {{}}}

\* what a constructor leaves: the graph, or how it failed; with it, the
\* branches handed to the constructors so far and the possible_branches the
\* last call left to its caller
Built(r, n, op, input) ==
  IF r.st = "ok"
  THEN [st |-> "ok", node |-> r.node, n |-> n, op |-> op, input |-> input, left |-> r.bs]
  ELSE [st |-> r.st, n |-> n, op |-> op]

GraphInit ==
  /\ graph = NoTree
  /\ commits = DagCommits
  /\ refs = EmptyBranches /\ head = Head_(NoBranch, NoCommit)
  /\ remote = NoRemote /\ tracking = NoRemote
  /\ dirty = FALSE /\ backups = <<>>
  /\ command = "graph" /\ args = Args(FALSE, FALSE, FALSE, FALSE, NoBranch, NoBranch, "All")
  /\ state = EmptyState
  /\ pc = "graph" /\ idx = 1 /\ pulled_ids = {} /\ scripts = <<>>
  /\ executor = ExecutorNew(FALSE) /\ head_name = NoBranch
  /\ success = TRUE /\ backed_up = FALSE /\ exit = "running" /\ log = <<>>
  /\ refs_before = EmptyBranches
  /\ start = [refs |-> refs, head |-> head, remote |-> remote]

\* what a call on the graph leaves alone
GraphFrame ==
  UNCHANGED <<commits, refs, head, remote, tracking, dirty, backups, args, state, pc, idx,
              pulled_ids, scripts, executor, head_name, success, backed_up, exit, log,
              refs_before, command, start>>

\* what from_branches leaves, with what a second run on the same repository
\* and the same branches returns, and whether `branches.oids()` gave the ids
\* in another order in the second run
BuiltTwice(r, again, bs, reordered) ==
  IF r.st = "ok"
  THEN [st |-> "ok", node |-> r.node, n |-> 0, op |-> "from_branches", input |-> bs,
        left |-> r.bs, again |-> again, reordered |-> reordered]
  ELSE [st |-> r.st, n |-> 0, op |-> "from_branches", again |-> again,
        reordered |-> reordered]

\* the branches the graph holds: those handed to the constructors, less those
\* the last call left in the possible_branches of its caller
Held == [n \in DOMAIN graph.input \ DOMAIN graph.left |-> graph.input[n]]

\* Node::from_branches(repo, branches)
FromBranches ==
  /\ pc = "graph" /\ graph = NoTree
  /\ \E bs \in GraphBranchSets :
       \E p, q \in Perms({bs[n] : n \in DOMAIN bs}) :
         graph' = BuiltTwice(TreeFromBranchesIn(commits, bs, p),
                             TreeFromBranchesIn(commits, bs, q), bs, p # q)
  /\ GraphFrame

\* root.insert_commit(repo, commit, &mut possible_branches)
InsertCommitCall ==
  /\ pc = "graph" /\ graph.st = "ok" /\ graph.n < MaxGraphOps
  /\ \E c \in 1..Len(commits), bs \in LaterBranchSets(graph.node) :
       graph' = Built(TreeInsertCommit(commits, graph.node, c, bs), graph.n + 1, "insert_commit",
                      Held @@ bs)
  /\ GraphFrame

\* root.extend_branches(repo, branches)
ExtendBranchesCall ==
  /\ pc = "graph" /\ graph.st = "ok" /\ graph.n < MaxGraphOps
  /\ \E bs \in LaterBranchSets(graph.node) :
       graph' = Built(TreeExtendBranches(commits, graph.node, bs), graph.n + 1,
                      "extend_branches", Held @@ bs)
  /\ GraphFrame

\* root.extend(repo, other), other being a graph of its own
ExtendCall ==
  /\ pc = "graph" /\ graph.st = "ok" /\ graph.n < MaxGraphOps
  /\ \E bs \in OtherBranchSets(graph.node) :
       LET other == TreeFromBranches(commits, bs)
       IN /\ other.st = "ok"
          /\ graph' = Built(TreeExtend(commits, graph.node, other.node), graph.n + 1, "extend",
                            Held @@ bs)
  /\ GraphFrame

GraphNext == FromBranches \/ InsertCommitCall \/ ExtendBranchesCall \/ ExtendCall

GraphSpec == GraphInit /\ [][GraphNext]_vars

\* a graph has been produced
Produced == graph.st = "ok"

\* C19: in every graph that from_branches, insert_commit, extend_branches and
\* extend produce, no two nodes carry the same commit id.
C19_UniqueCommits ==
  Produced => Cardinality(SeqToSet(TreeIds(graph.node))) = Len(TreeIds(graph.node))

\* a graph of several nodes with a fork, produced by a call on a graph
C19_Witness ==
  /\ Produced /\ graph.n > 0
  /\ Len(TreeIds(graph.node)) >= 4
  /\ \E e, f \in TreeEdges(graph.node) : e[1] = f[1] /\ e[2] # f[2]

\* C20: every graph produced has one root, whose commit is an ancestor of the
\* commit of every node, and every edge from a parent to a child goes from a
\* commit to a commit that has it among its parent ids.
C20_RootAndEdges ==
  Produced =>
    /\ \A c \in SeqToSet(TreeIds(graph.node)) : graph.node.id \in DagAncestors(commits, c)
    /\ \A e \in TreeEdges(graph.node) : e[1] \in ParentIds(commits, e[2])
    /\ \A e \in TreeEdges(graph.node) : e[2] # graph.node.id

\* a graph that holds the merge commit below its first parent
C20_Witness ==
  /\ Produced
  /\ \E e \in TreeEdges(graph.node) :
       commits[e[2]].others # {} /\ e[1] = commits[e[2]].parent

\* the branches the constructors took for the graph: those handed in, less
\* those the last call left in possible_branches
Taken == {<<n, graph.input[n]>> : n \in DOMAIN graph.input \ DOMAIN graph.left}

\* C21: construction conserves branches: after from_branches and after each
\* insert_commit, extend_branches and extend, the branches on the nodes are
\* the branches handed in, each once and on the node of its commit; what
\* insert_commit does not reach stays in possible_branches, and from_branches
\* and extend_branches leave nothing there.
C21_BranchConservation ==
  Produced =>
    /\ SeqToSet(TreeBranches(graph.node)) = Taken
    /\ Len(TreeBranches(graph.node)) = Cardinality(Taken)
    /\ \A n \in DOMAIN graph.left : n \in DOMAIN graph.input /\ graph.left[n] = graph.input[n]
    /\ graph.op \in {"from_branches", "extend_branches", "extend"} => graph.left = EmptyBranches

\* a graph with branches on several nodes, two of them on one node, after a
\* call that merged a chain into it
C21_Witness ==
  /\ Produced /\ graph.n > 0 /\ graph.left = EmptyBranches
  /\ Len(TreeBranches(graph.node)) >= 3
  /\ \E x, y \in SeqToSet(TreeBranches(graph.node)) : x[2] # y[2]
  /\ \E x, y \in SeqToSet(TreeBranches(graph.node)) : x[1] # y[1] /\ x[2] = y[2]

\* the way from the root of the graph down to the node at a commit
PathTo(id) == FindCommitMut(graph.node, id).path

\* the pairs of commits of a tree of which the first is on the node of the
\* second or on one of its ancestors
RECURSIVE TreeAbove(_)
TreeAbove(node) ==
  {<<node.id, y>> : y \in SeqToSet(TreeIds(node))}
    \cup UNION {TreeAbove(node.children[k]) : k \in DOMAIN node.children}

\* the node at commit a is the node at commit b or one of its ancestors
NodeAbove(a, b) == <<a, b>> \in TreeAbove(graph.node)

\* C22 as claimed: for every two branches of the input, if the commit of the
\* one is an ancestor of the commit of the other in the commit graph, the
\* node that carries the one is the node that carries the other or one of its
\* ancestors.
C22_Original ==
  Produced =>
    LET above == TreeAbove(graph.node)
    IN \A A, B \in DOMAIN Held :
         Held[A] \in DagAncestors(commits, Held[B]) => <<Held[A], Held[B]>> \in above

\* C22, amended: for every two branches of the input, if the commit of the
\* one is an ancestor of the commit of the other along first parents, the
\* node that carries the one is the node that carries the other or one of its
\* ancestors; a commit reached only through a second parent of a merge may
\* sit on another arm of the graph.
C22_FirstParentAncestry ==
  Produced =>
    LET above == TreeAbove(graph.node)
    IN \A A, B \in DOMAIN Held :
         IsAncestor(commits, Held[A], Held[B]) => <<Held[A], Held[B]>> \in above

\* a graph, built in several calls, with a branch on an inner node and
\* another branch further down the same arm, below the merge commit
C22_Witness ==
  /\ Produced /\ graph.n > 0
  /\ \E A, B \in DOMAIN Held :
       /\ Held[A] # Held[B] /\ IsAncestor(commits, Held[A], Held[B])
       /\ PathTo(Held[A]) # <<>> /\ NodeAbove(Held[A], Held[B])
       /\ \E c \in 1..Len(commits) :
            commits[c].others # {} /\ IsAncestor(commits, c, Held[B])

\* from_branches has returned
Returned == graph.st # "none" /\ graph.op = "from_branches"

\* C23: construction is deterministic: on one repository and one set of
\* branches two runs of from_branches return the same, and where they return
\* a graph the two graphs are equal, in the branches of every node, the
\* actions and the order of the children.
C23_Deterministic ==
  Returned =>
    /\ graph.again.st = graph.st
    /\ graph.st = "ok" => graph.again.node = graph.node /\ graph.again.bs = graph.left

\* two runs over three branch commits that `branches.oids()` gave in
\* different orders, returning a graph with a fork
C23_Witness ==
  /\ Returned /\ graph.st = "ok" /\ graph.reordered
  /\ Cardinality({graph.input[n] : n \in DOMAIN graph.input}) = 3
  /\ \E e, f \in TreeEdges(graph.node) : e[1] = f[1] /\ e[2] # f[2]

\* ------------------------------------------------------- populate on its own
\* the branch indexes populate is called with: up to two branches on DagCommits
PopulateBranchSets == UNION {[S -> 1..Len(DagCommits)] : S \in SUBSET {"a", "b"}}

\* what populate returns for its arguments
Populated(r, base, head_oid, action, bs) ==
  IF r.st = "ok"
  THEN [st |-> "ok", node |-> r.node, op |-> "populate", base |-> base, head |-> head_oid,
        action |-> action, input |-> bs, left |-> r.bs]
  ELSE [st |-> r.st, op |-> "populate", base |-> base, head |-> head_oid, action |-> action]

\* Node::populate(repo, base_oid, head_oid, branches, default_action)
PopulateCall ==
  /\ pc = "graph" /\ graph = NoTree
  /\ \E base, head_oid \in 1..Len(commits), bs \in PopulateBranchSets,
        action \in {"Pick", "Protected"} :
       graph' = Populated(TreePopulate(commits, base, head_oid, bs, action),
                          base, head_oid, action, bs)
  /\ GraphFrame

PopulateSpec == GraphInit /\ [][PopulateCall]_vars

\* the actions on the nodes of a tree
RECURSIVE TreeActions(_)
TreeActions(node) ==
  {node.action} \cup UNION {TreeActions(node.children[k]) : k \in DOMAIN node.children}

\* populate has returned
PopulateReturned == graph.st # "none" /\ graph.op = "populate"

\* the graph is one chain along first parents, from its root down to the head
\* populate was given, every node with the action populate was given
IsChainToHead ==
  /\ \A e, f \in TreeEdges(graph.node) : e[1] = f[1] => e = f
  /\ \A e \in TreeEdges(graph.node) : e[1] = commits[e[2]].parent
  /\ TreeIds(graph.node)[Len(TreeIds(graph.node))] = graph.head
  /\ TreeActions(graph.node) = {graph.action}
  /\ graph.base = graph.head => Len(TreeIds(graph.node)) = 1

\* C24 as claimed: populate(base, head) fails when merge_base(base, head) is
\* not base; otherwise it returns one chain along first parents whose root is
\* base and whose only leaf is head, every node with default_action, and the
\* single node for base = head.
C24_Original ==
  PopulateReturned =>
    IF DagMergeBase(commits, graph.base, graph.head) # graph.base
    THEN graph.st = "err"
    ELSE graph.st = "ok" /\ IsChainToHead /\ graph.node.id = graph.base

\* ============================================== State::new and the stacks
\* State::new runs for `--stack all` without --base and --onto, the
\* configuration having loaded
NewOfAll ==
  /\ pc = "new" /\ command = "stack"
  /\ args.base = NoBranch /\ args.onto = NoBranch /\ args.stack = "All"
  /\ exit' # "config"

\* the protected base resolve_implicit_base finds for a local branch
ImplicitBaseOf(n) == ResolveImplicitBase(commits, refs[n], BranchesProtected(refs))

\* the stacks that hold a branch after State::new
StacksWith(n) == {k \in DOMAIN state'.stacks : n \in DOMAIN state'.stacks[k].branches}

\* C25: with `--stack all` and neither base nor onto, State::new fails with a
\* usage error if a branch has no protected base; otherwise every local
\* branch is in exactly one stack, the stack whose base is the protected base
\* resolved for the branch, no two stacks have the same base, and the onto of
\* every stack is its base.
C25_StackPerBase ==
  [][NewOfAll =>
       IF \E n \in DOMAIN refs : ImplicitBaseOf(n) = NoneBranch
       THEN pc' = "done" /\ exit' = "usage"
       ELSE /\ pc' = Phases[1]
            /\ \A n \in DOMAIN refs :
                 /\ Cardinality(StacksWith(n)) = 1
                 /\ \A k \in StacksWith(n) :
                      /\ state'.stacks[k].base = ImplicitBaseOf(n)
                      /\ state'.stacks[k].branches[n] = refs[n]
            /\ \A j, k \in DOMAIN state'.stacks :
                 j # k => state'.stacks[j].base # state'.stacks[k].base
            /\ \A k \in DOMAIN state'.stacks :
                 /\ state'.stacks[k].onto = state'.stacks[k].base
                 /\ DOMAIN state'.stacks[k].branches \subseteq DOMAIN refs]_vars

\* State::new has just made two stacks for `--stack all`
C25_Witness ==
  /\ pc = Phases[1] /\ idx = 1 /\ log = <<>>
  /\ args.base = NoBranch /\ args.onto = NoBranch /\ args.stack = "All"
  /\ Len(state.stacks) = 2
  /\ \A k \in DOMAIN state.stacks : DOMAIN state.stacks[k].branches # {}

\* the elements of a sequence in the order of their first occurrence
RECURSIVE FirstSeen(_, _)
FirstSeen(seq, acc) ==
  IF seq = <<>> THEN acc
  ELSE FirstSeen(Tail(seq),
                 IF Head(seq) \in SeqToSet(acc) THEN acc ELSE Append(acc, Head(seq)))

\* the names of the bases in the order in which the loop of State::new over
\* the branches of the run's repository makes their stacks
CreationOrder ==
  FirstSeen([k \in 1..Len(BranchIdsByName(start.refs)) |->
               ResolveImplicitBase(commits, BranchIdsByName(start.refs)[k],
                                   BranchesProtected(start.refs)).name],
            <<>>)

\* C26 as claimed: the stacks are pulled, planned and executed in the order in
\* which they were created from the branches, the same in every run on the
\* same repository with the same arguments.
C26_Original ==
  (/\ command = "stack" /\ state.stacks # <<>>
   /\ args.base = NoBranch /\ args.onto = NoBranch /\ args.stack = "All")
    => [k \in 1..Len(state.stacks) |-> state.stacks[k].base.name] = CreationOrder

\* ======================================================== the rebase plan
\* the scripts have been planned and none has run yet
Planned == pc = "run_scripts" /\ idx = 1

\* the scripts have all run, on the repository, without a failure
Rebased == pc = "close" /\ ~state.dry_run /\ success

\* the commits of a stack's graph that are not Protected and have the tree of
\* another commit, one of ids
LandedAmong(stack, ids) ==
  {n \in PlanGraph(commits, state, stack).nodes :
     /\ PlanGraph(commits, state, stack).action[n] # "Protected"
     /\ \E k \in 1..Len(ids) : ids[k] # n /\ commits[ids[k]].tree = commits[n].tree}

\* the commits of a stack's graph from n down to its first Protected ancestor
\* that have not landed
RemainingOf(stack, n, landed) ==
  {c \in SeqToSet(CommitsFrom(commits, n)) \cap PlanGraph(commits, state, stack).nodes :
     /\ c \notin landed
     /\ \A d \in SeqToSet(CommitsFrom(commits, n)) \cap PlanGraph(commits, state, stack).nodes :
          IsAncestor(commits, c, d) => PlanGraph(commits, state, stack).action[d] # "Protected"}

\* the script of a stack picks none of the landed commits and picks every
\* commit that remains on top of one; once the scripts have run, a branch that
\* was on top of a landed commit is on onto with the remaining commits only
DropsLanded(k, landed) ==
  /\ Planned =>
       /\ landed \cap PicksOf(scripts[k]) = {}
       /\ \A n \in PlanGraph(commits, state, state.stacks[k]).nodes :
            (n \notin landed /\ \E l \in landed : IsAncestor(commits, l, n))
              => n \in PicksOf(scripts[k])
  /\ Rebased =>
       \A b \in DOMAIN state.stacks[k].branches :
         (\E l \in landed : IsAncestor(commits, l, state.stacks[k].branches[b]))
           => /\ b \in DOMAIN refs
              /\ IsAncestor(commits, state.stacks[k].onto.id, refs[b])
              /\ Distance(commits, state.stacks[k].onto.id, refs[b])
                   = Cardinality(RemainingOf(state.stacks[k], state.stacks[k].branches[b], landed))

\* C27 as claimed: when the onto branch contains a commit with the tree of a
\* commit of the stack that is not protected, the plan marks that commit
\* Delete: the script drops it and keeps the remaining commits of the branch.
C27_Original ==
  (Planned \/ Rebased) =>
    \A k \in DOMAIN state.stacks :
      DropsLanded(k, LandedAmong(state.stacks[k], OntoCommitsAll(commits, state.stacks[k])))

\* what plan_rebase does keep: when one of the commits of the onto branch
\* above merge_base(base, onto) has the tree of a commit of the stack that is
\* not protected, the script drops that commit and keeps the remaining
\* commits of the branch; a commit of onto at or below that merge base is not
\* compared, so nothing is dropped when base is onto
DropsLandedAboveBase ==
  (Planned \/ Rebased) =>
    \A k \in DOMAIN state.stacks :
      DropsLanded(k, LandedAmong(state.stacks[k], OntoCommits(commits, state.stacks[k])))

\* the scripts have run and a branch that was on top of a landed commit has
\* been rebuilt on onto without it
LandedDropped ==
  /\ Rebased
  /\ \E k \in DOMAIN state.stacks : \E b \in DOMAIN state.stacks[k].branches :
       /\ \E l \in LandedAmong(state.stacks[k], OntoCommits(commits, state.stacks[k])) :
            IsAncestor(commits, l, state.stacks[k].branches[b])
       /\ b \in DOMAIN refs /\ refs[b] # state.stacks[k].branches[b]
       /\ commits[refs[b]].parent = state.stacks[k].onto.id

\* the branches of stack k, as planned, that still exist
StackBranchesLeft(k) == DOMAIN state.stacks[k].branches \cap DOMAIN refs

\* the branch of stack k was planned on a commit that is not Protected
OnUnprotected(k, b) ==
  /\ state.stacks[k].branches[b] \in PlanGraph(commits, state, state.stacks[k]).nodes
  /\ PlanGraph(commits, state, state.stacks[k]).action[state.stacks[k].branches[b]]
       # "Protected"

\* the branches of stack k in S are on onto, and those of them that were
\* stacked on another of them are stacked on its new tip
Follows(k, S) ==
  /\ \A A \in S : IsAncestor(commits, state.stacks[k].onto.id, refs[A])
  /\ \A A, B \in S :
       IsAncestor(commits, state.stacks[k].branches[A], state.stacks[k].branches[B])
         => IsAncestor(commits, refs[A], refs[B])

\* C28 as claimed: after the rebase every branch that is not protected has
\* onto as an ancestor of its new tip, and a branch that was stacked on
\* another branch is stacked on the new tip of that branch.
C28_Original ==
  Rebased =>
    \A k \in DOMAIN state.stacks :
      Follows(k, {b \in StackBranchesLeft(k) : ~IsProtectedName(b)})

\* C28, amended: after the rebase every branch whose commit was not Protected
\* in the plan (it carries no protected branch and is no ancestor of one) has
\* onto as an ancestor of its new tip, and such a branch that was stacked on
\* another one is stacked on the new tip of that branch.
C28_DependentsFollow ==
  Rebased =>
    \A k \in DOMAIN state.stacks :
      Follows(k, {b \in StackBranchesLeft(k) : OnUnprotected(k, b)})

\* main has moved, and a and b, b stacked on a, have been rebuilt: a on the
\* new main, b on the new a
C28_Witness ==
  /\ Rebased /\ Len(state.stacks) = 1
  /\ state.stacks[1].onto.name = "main" /\ refs["main"] = 3 /\ start.refs["main"] = 2
  /\ {"a", "b"} \subseteq StackBranchesLeft(1) /\ OnUnprotected(1, "a") /\ OnUnprotected(1, "b")
  /\ state.stacks[1].branches["a"] = 4 /\ state.stacks[1].branches["b"] = 5
  /\ commits[refs["a"]].parent = 3 /\ commits[refs["b"]].parent = refs["a"]

\* ================================================================ a second run
\* a run of `stack` that rebased on the repository has ended well
RebaseDone ==
  /\ pc = "done" /\ exit = "ok" /\ command = "stack"
  /\ state.rebase /\ ~state.dry_run

\* the State a second run with the same arguments makes of the repository as
\* the first run left it, for the stacks State::new returns
StateAgain(stacks) ==
  [branches |-> refs, protected_branches |-> BranchesProtected(refs),
   head_commit |-> head.id, stacks |-> stacks, rebase |-> RebaseFlag(args),
   pull |-> args.pull, push |-> args.push, dry_run |-> args.dry_run]

\* what the executor of a second run makes of a script
RunAgain(script) == RunScriptOp(commits, refs, head, ExecutorNew(FALSE), script, {})

\* the script of a second run for a stack has no command, and running it
\* changes no branch, no commit and not HEAD and leaves the executor clean, so
\* that no backup is taken
NothingToDo(stacks, k) ==
  /\ PlanRebase(commits, StateAgain(stacks), stacks[k]).ok
  /\ PlanRebase(commits, StateAgain(stacks), stacks[k]).script = <<>>
  /\ RunAgain(PlanRebase(commits, StateAgain(stacks), stacks[k]).script).rf = refs
  /\ RunAgain(PlanRebase(commits, StateAgain(stacks), stacks[k]).script).cm = commits
  /\ RunAgain(PlanRebase(commits, StateAgain(stacks), stacks[k]).script).hd = head
  /\ ~BackupWanted(RunAgain(PlanRebase(commits, StateAgain(stacks), stacks[k]).script).ex)

\* C29: the rebase is idempotent: when a run has rebased, a second run with
\* the same arguments on the repository as the first left it gets to its
\* rebase, plans scripts without commands, changes nothing and takes no
\* backup.
C29_RebaseIdempotent ==
  RebaseDone =>
    \A r \in StateNewResults(commits, refs, head, args) :
      /\ r.exit = "running"
      /\ head.branch # NoBranch /\ ~TreeIsDirty(dirty)
      /\ \A k \in DOMAIN r.stacks : NothingToDo(r.stacks, k)

\* a run has ended well after its scripts rebuilt two branches
C29_Witness ==
  /\ RebaseDone /\ backed_up
  /\ Cardinality({n \in DOMAIN refs \cap DOMAIN start.refs :
                    ~IsProtectedName(n) /\ refs[n] # start.refs[n]}) >= 2

\* ============================================================ a second dry run
\* a run of `stack` with dry_run set has ended well
DryRunDone ==
  /\ pc = "done" /\ exit = "ok" /\ command = "stack" /\ args.dry_run

\* the State a dry run makes of the snapshot the run started from, for the
\* stacks State::new returns
DryState(stacks) ==
  [branches |-> start.refs, protected_branches |-> BranchesProtected(start.refs),
   head_commit |-> start.head.id, stacks |-> stacks, rebase |-> RebaseFlag(args),
   pull |-> args.pull, push |-> args.push, dry_run |-> TRUE]

\* what the pull loop of a dry run logs for the stacks from the k-th on
RECURSIVE DryPullLog(_, _)
DryPullLog(stacks, k) ==
  IF k > Len(stacks) THEN <<>>
  ELSE (IF PullWanted(DryState(stacks), stacks[k])
        THEN GitPullDryRun(InitCommits, start.refs, start.head, NoRemote, stacks[k].onto.name).log
        ELSE <<Ev("pull", "not-protected", stacks[k].onto.name, FALSE)>>)
       \o DryPullLog(stacks, k + 1)

\* what the executor of a dry run logs for the scripts from the k-th on, and
\* the executor it ends with
RECURSIVE DryScriptsLog(_, _, _, _)
DryScriptsLog(stacks, k, ex, said) ==
  IF k > Len(stacks) THEN [ex |-> ex, log |-> said]
  ELSE LET x == RunScriptOp(InitCommits, start.refs, start.head, ex,
                            PlanRebase(InitCommits, DryState(stacks), stacks[k]).script, {})
       IN DryScriptsLog(stacks, k + 1, x.ex, said \o x.log \o FailureLines(x.failures))

\* the sequence of operations a dry run that ends well logs on the snapshot,
\* for the stacks State::new returns: the pulls, the rebase, the pushes and
\* the undo message
DryRunLog(stacks) ==
  LET x == DryScriptsLog(stacks, 1, ExecutorNew(TRUE), <<>>)
  IN (IF args.pull THEN DryPullLog(stacks, 1) ELSE <<>>)
     \o (IF RebaseFlag(args)
         THEN x.log
              \o (IF BackupWanted(x.ex) THEN <<Ev("rebase", "backup", NoBranch, TRUE)>> ELSE <<>>)
              \o ExecutorClose(start.refs, start.head, x.ex, start.head.branch).log
         ELSE <<>>)
     \o (IF args.push
         THEN GitPush(InitCommits, PushGraph(InitCommits, DryState(stacks)), TRUE, {}).log
         ELSE <<>>)
     \o (IF RebaseFlag(args) /\ BackupWanted(x.ex)
         THEN <<Ev("end", "undo", "git-stack", FALSE)>> ELSE <<>>)

\* the log of the run is the one the stacks of its State give
DryLogOfStacks == DryRunDone => log = DryRunLog(state.stacks)

\* C30 as claimed: a dry run is repeatable: every second run with dry_run set,
\* started from the same snapshot with the same arguments, logs the same
\* sequence of operations as the first.
C30_Original ==
  DryRunDone =>
    \A r \in StateNewResults(InitCommits, start.refs, start.head, args) :
      r.exit = "running" => DryRunLog(r.stacks) = log

\* a dry run has ended well after it logged operations for two stacks
DryRunOfTwoStacks ==
  /\ DryRunDone /\ Len(state.stacks) = 2 /\ log # <<>>

\* ======================================================= the graph of a plan
\* the graph plan_rebase builds for a stack, before the passes
PlanRoot(stack) ==
  GraphOf(commits, state.head_commit, WithBaseAndOnto(stack.branches, stack))

\* a branch is among the branches of the node of its commit
Carries(g, b) == b.id \in g.nodes /\ b.name \in SeqToSet(g.branches[b.id])

\* the script the passes give when they are applied in the order
\* protect_branches, rebase_branches(onto), drop_by_tree_id, delinearize
ScriptInOrder(stack) ==
  ToScript(commits,
           Delinearize(DropByTreeId(commits,
                                    RebaseBranches(ProtectBranches(commits, PlanRoot(stack),
                                                                   state.protected_branches),
                                                   stack.onto.id),
                                    OntoCommits(commits, stack))),
           stack.onto.id)

PlanGraphHasCommits ==
  Planned =>
    \A k \in 1..Len(state.stacks) :
      /\ PlanRoot(state.stacks[k]).ok
      /\ {state.stacks[k].base.id, state.stacks[k].onto.id} \subseteq PlanRoot(state.stacks[k]).nodes
      /\ scripts[k] = ScriptInOrder(state.stacks[k])

\* ===================================================== the end of the rebase
\* the rebase block has run its scripts and is over: the run went on to the
\* push, or it returned
RebaseOver ==
  /\ command = "stack" /\ state.rebase /\ refs_before # EmptyBranches
  /\ pc \in {"push", "show", "finish", "done"}

\* the run returned out of the rebase block when the backup could not be stored
BackupFailed ==
  /\ pc = "done" /\ exit = "failure" /\ backed_up /\ backups = <<>>

\* C32 as claimed: once the rebase block has started on the scripts, HEAD is
\* back on the branch it was on at the start of the block when the block is
\* over, whether every branch was re-stacked, some failed, or the backup
\* failed.
C32_Original == RebaseOver => head.branch = head_name

\* what the code keeps: HEAD is back on its branch whenever the run did not
\* return on the backup, before executor.close
HeadRestoredAfterClose == (RebaseOver /\ ~BackupFailed) => head.branch = head_name

\* ================================================= the guards of the scripts
\* the rebase block is entered with a clean tree
AtRebase == pc = "rebase" /\ command = "stack" /\ state.rebase /\ ~TreeIsDirty(dirty)

\* plan_rebase fails for one of the stacks
SomePlanFails ==
  \E k \in 1..Len(state.stacks) : ~PlanRebase(commits, state, state.stacks[k]).ok

\* the commands of scripts in a log
ScriptCommands(evs) == {k \in 1..Len(evs) : IsScriptCommand(evs[k])}

\* C33: a step that runs a script is taken with HEAD having been on a branch
\* and with a script planned for every stack; and a rebase block entered with
\* HEAD detached or with a stack whose plan fails returns with an error, with
\* no script planned and no command of a script run.
C33_NoScriptWithoutPlans ==
  [][/\ ScriptCommands(log') # ScriptCommands(log)
          => (/\ pc = "run_scripts" /\ head_name # NoBranch
              /\ Len(scripts) = Len(state.stacks)
              /\ \A k \in 1..Len(state.stacks) :
                    PlanRebase(commits, state, state.stacks[k]).ok \/ idx > 1)
     /\ (AtRebase /\ (head.branch = NoBranch \/ SomePlanFails))
          => (/\ pc' = "done" /\ exit' \in {"usage", "failure"}
              /\ scripts' = <<>> /\ ScriptCommands(log') = {}
              /\ refs' = refs /\ commits' = commits)]_vars

\* a run returned from the rebase block because the plan of a stack failed:
\* HEAD was on a branch and no script was planned
C33_Witness ==
  /\ pc = "done" /\ exit = "failure" /\ command = "stack"
  /\ head_name # NoBranch /\ refs_before = EmptyBranches /\ scripts = <<>>

\* ======================================================= pull implies rebase
\* C34: asking for a pull is asking for a rebase: the State of a run with
\* --pull has its rebase flag set, and when such a run comes to the rebase
\* block it goes through it (to the scripts, or out of the run on the dirty
\* tree, the detached HEAD or a failed plan) and never past it; a run with
\* neither --pull nor --rebase plans no script and runs no script command.
C34_PullImpliesRebase ==
  [][/\ (command = "stack" /\ StateBuilt' /\ args.pull) => state'.rebase
     /\ (command = "stack" /\ pc = "rebase" /\ args.pull) => pc' \in {"run_scripts", "done"}
     /\ (command = "stack" /\ ~args.pull /\ ~args.rebase)
          => (/\ ~state'.rebase /\ scripts' = <<>> /\ ScriptCommands(log') = {}
              /\ pc' # "run_scripts")]_vars

\* a run with --pull and without --rebase has ended after its scripts
\* re-stacked a branch
C34_Witness ==
  /\ pc = "done" /\ exit = "ok" /\ command = "stack"
  /\ args.pull /\ ~args.rebase /\ ~args.dry_run
  /\ Logged(IsScriptCommand) /\ backups # <<>>

\* ================================================ failures of the constructors
\* the commits that have no merge base with the root of the graph
Unrelated(node) == {c \in 1..Len(commits) : DagMergeBase(commits, node.id, c) = NoCommit}

\* a graph of one node at a commit, as `other` of extend
Lone(c) == TreeNew(c, EmptyBranches).node

\* C35 as claimed: the constructors report failure as an error value and never
\* panic: from_branches of no branches is an error, insert_commit and extend
\* of a commit that has no merge base with the root are errors, and no call
\* ends in a panic.
C35_Original ==
  /\ graph.st \in {"none", "ok", "err"}
  /\ TreeFromBranches(commits, EmptyBranches).st = "err"
  /\ graph.st = "ok" =>
       \A c \in Unrelated(graph.node) :
         /\ TreeInsertCommit(commits, graph.node, c, EmptyBranches).st = "err"
         /\ TreeExtend(commits, graph.node, Lone(c)).st = "err"

\* what the code keeps: the failures the claim names are reported as errors
ErrorsReported ==
  /\ TreeFromBranches(commits, EmptyBranches).st = "err"
  /\ graph.st = "ok" =>
       \A c \in Unrelated(graph.node) :
         /\ TreeInsertCommit(commits, graph.node, c, EmptyBranches).st = "err"
         /\ TreeExtend(commits, graph.node, Lone(c)).st = "err"

\* an error has been reported for a commit of an unrelated history
ErrorSeen == graph.st = "err" /\ graph.op \in {"insert_commit", "extend"}

\* C36 as claimed: every call of merge that from_branches, insert_commit,
\* extend_branches and extend make is on two nodes at the same commit, so that
\* none of them ends in the panic of the assertion of merge, whatever the
\* commit graph.
C36_Original ==
  graph.st # "none" =>
    (graph.op \in {"from_branches", "insert_commit", "extend_branches", "extend"}
       => graph.st # "panic")

\* ======================================================== State::new is total
\* State::new has returned
NewReturned == command = "stack" /\ pc # "new"

\* C37 as claimed: State::new is total: for every --base, --onto and --stack
\* it returns the State with its stacks or an error, and the arm marked
\* unreachable for --stack all is never reached.
C37_Original ==
  NewReturned =>
    /\ exit # "panic"
    /\ StateBuilt \/ (pc = "done" /\ exit \in {"usage", "config"})

\* what the code keeps: unless --base and --onto are both given with
\* --stack all, State::new returns the State or an error
TotalButBaseOntoAll ==
  (NewReturned /\ ~(args.base # NoBranch /\ args.onto # NoBranch /\ args.stack = "All"))
    => /\ exit # "panic"
       /\ StateBuilt \/ (pc = "done" /\ exit \in {"usage", "config"})

\* ================================================== base and onto at one commit
\* the graph of a stack as the script is compiled from it
PlanFinal(stack) ==
  Delinearize(DropByTreeId(commits, PlanGraph(commits, state, stack),
                           OntoCommits(commits, stack)))

\* the trees of the commits of the onto branch
OntoTrees(stack) ==
  {commits[CommitsFrom(commits, stack.onto.id)[j]].tree
     : j \in 1..Len(CommitsFrom(commits, stack.onto.id))}

\* C38: a stack whose base and onto are at the same commit has no onto commits
\* to compare by tree id, no node of its planned graph is marked Delete and
\* its script deletes no branch; and when the scripts have run without a
\* failure every branch of the stack is still there: nothing was dropped.
C38_NothingDropped ==
  \A k \in 1..Len(state.stacks) :
    state.stacks[k].base.id = state.stacks[k].onto.id
      => /\ Planned =>
              /\ OntoCommits(commits, state.stacks[k]) = <<>>
              /\ \A n \in PlanFinal(state.stacks[k]).nodes :
                    PlanFinal(state.stacks[k]).action[n] # "Delete"
              /\ \A j \in 1..Len(scripts[k]) : scripts[k][j].op # "DeleteBranch"
         /\ Rebased => DOMAIN state.stacks[k].branches \subseteq DOMAIN refs

\* the scripts have been planned for a stack with base and onto at one commit,
\* and its script picks a commit whose tree is the tree of a commit of onto
C38_Witness ==
  /\ Planned
  /\ \E k \in 1..Len(state.stacks) :
       /\ state.stacks[k].base.id = state.stacks[k].onto.id
       /\ \E n \in PicksOf(scripts[k]) : commits[n].tree \in OntoTrees(state.stacks[k])

====
